---------------------------- MODULE Spec2Model ----------------------------
(***************************************************************************)
(* Model of overleaf_sync.py: the synchronisation of a remote, revision    *)
(* tracked Overleaf project (OverleafBroker) with a local git repository   *)
(* (GitBroker) by OverleafProject.init / pull / push / sync.               *)
(*                                                                         *)
(* The remote is a sequence of snapshots, one per version, each a tree of  *)
(* entities (doc, file, folder) with ids.  The local repository is a       *)
(* commit graph with the branches `overleaf` (mirror) and `working`, the   *)
(* tag `ws` (fork point) and the version tags written by push.             *)
(***************************************************************************)
EXTENDS Integers, Sequences, FiniteSets, TLC

(***************************************************************************)
(* Bounds of the model.                                                    *)
(***************************************************************************)
MaxV == 2
MaxWindow == 3
MaxCommits == 6
MaxWork == 1
MaxStash == 1
MaxFragments == 2
\* Downloads of one broker object, and the last second at which a download
\* or a pause may begin (SpecZip).
MaxZips == 3
MaxClock == 1400

VARIABLES
    \* ---- remote project (OverleafBroker's server side)
    snaps,      \* version -> remote tree (path -> entity)
    steps,      \* version v -> the user whose edit made v out of v-1
    updates,    \* the server's update list, newest first
    nextId,     \* next fresh entity id
    textOrder,  \* the order in which users' fragments appear in diffs
    editors,    \* the users who edit the project in the web editor
    room,       \* the number of versions the other users' edits can add
    \* ---- local git repository (GitBroker)
    commits,    \* sequence of commits; a commit's id is its index
    overleaf,   \* commit of branch `overleaf` (0: no such branch)
    working,    \* commit of branch `working`
    ws,         \* commit of tag `ws`
    head,       \* checked-out branch: "overleaf", "working", "detached", "none"
    dirty,      \* uncommitted changes in the working tree
    stashes,    \* number of stash entries
    rebasing,   \* a rebase stopped on a conflict and is still in progress
    vtags,      \* version tags written by push: set of <<name, commit>>
    \* ---- the running process (OverleafProject / OverleafBroker caches)
    pc,         \* position of the running command; "idle" between commands
    op,         \* the running command and its flags
    result,     \* exit status of the last command
    cache,      \* OverleafBroker._updates (<<>>: not fetched)
    idx,        \* OverleafBroker._indexed_file_ids
    todo,       \* updates still to migrate, in migration order
    stashed,    \* the local variable `stash` of pull/push
    calls,      \* remote mutating requests sent by the running command
    ops,        \* broker invocations made by _push, in order
    status,     \* the lines of `git diff --name-status ws` read by _push
    answers,    \* the replies the user gives to delete confirmations
    hist,       \* observations of the running command, for the properties
    \* ---- _apply_changes_diff._diff_to_content on one answer of the server
    fetched,    \* the DiffOp sequence answered to OverleafBroker.diff
    written,    \* the content made of it: [ok, text], or NoContent before
    \* ---- OverleafBroker.download_zip and the wall clock
    now,        \* time(), in seconds
    download_zip_ts, \* OverleafBroker._download_zip_ts
    zips        \* the downloads of this broker object: [sent, done, ok]

remoteVars == <<snaps, steps, updates, nextId, textOrder, editors, room>>
gitVars == <<commits, overleaf, working, ws, head, dirty, stashes, rebasing, vtags>>
procVars == <<pc, op, result, cache, idx, todo, stashed, calls, ops, status, answers, hist>>
diffVars == <<fetched, written, now, download_zip_ts, zips>>
vars == <<remoteVars, gitVars, procVars, diffVars>>

-----------------------------------------------------------------------------
(***************************************************************************)
(* Sequences, paths.                                                       *)
(***************************************************************************)
Last(s) == s[Len(s)]

RECURSIVE Reverse(_)
Reverse(s) == IF s = <<>> THEN <<>> ELSE Append(Reverse(Tail(s)), Head(s))

RangeOf(s) == {s[i] : i \in 1..Len(s)}

SetMax(S) == CHOOSE x \in S : \A y \in S : y <= x

\* A path is a sequence of names; <<>> is the project root.
PathOrder == << <<"a">>, <<"b">>, <<"d">>, <<"d", "c">>, <<"d", "e">>, <<"d", "e", "c">> >>

\* os.path.dirname / os.path.basename
Dirname(p) == SubSeq(p, 1, Len(p) - 1)
Basename(p) == p[Len(p)]

IsPrefix(p, q) == Len(p) < Len(q) /\ SubSeq(q, 1, Len(p)) = p

\* The paths of PathOrder that lie in P, in order.
OrderedPaths(P) == SelectSeq(PathOrder, LAMBDA p : p \in P)

Users == {"A", "B"}
NoUser == "none"

\* The texts a file can hold; <<>> is "no file at this path".
Texts == {<<1>>, <<2>>}

-----------------------------------------------------------------------------
(***************************************************************************)
(* The remote project: what the server answers to OverleafBroker.          *)
(***************************************************************************)
NoEnt == [kind |-> "none", id |-> 0, text |-> <<>>]

IsFile(e) == e.kind \in {"doc", "file"}

Universe == DOMAIN snaps[CHOOSE v \in DOMAIN snaps : TRUE]

\* The remote's true latest version.
RemoteVersion == SetMax(DOMAIN snaps)

RemoteTree == snaps[RemoteVersion]

\* meta.end_ts (milliseconds) of the edit that made version v.
StepTs(v) == v * 1000 + 7

HasId(t, id) == \E p \in DOMAIN t : t[p].kind # "none" /\ t[p].id = id

PathOfId(t, id) == CHOOSE p \in DOMAIN t : t[p].kind # "none" /\ t[p].id = id

FtEntry(p, operation, q, e) ==
    [pathname |-> p, operation |-> operation, newPathname |-> q,
     editable |-> (e.kind = "doc")]

\* The filetree-diff entries of one path between trees A and B: the entity
\* that was at p in A (removed, renamed, edited, or unchanged: no operation),
\* then an entity that is new at p in B.
FtEntriesAt(A, B, p) ==
    LET old == IF ~IsFile(A[p]) THEN <<>>
               ELSE IF ~HasId(B, A[p].id) THEN <<FtEntry(p, "removed", <<>>, A[p])>>
               ELSE IF PathOfId(B, A[p].id) # p
                    THEN <<FtEntry(p, "renamed", PathOfId(B, A[p].id), A[p])>>
               ELSE IF B[p].text # A[p].text THEN <<FtEntry(p, "edited", <<>>, B[p])>>
               ELSE <<FtEntry(p, "", <<>>, B[p])>>
        new == IF IsFile(B[p]) /\ ~HasId(A, B[p].id)
               THEN <<FtEntry(p, "added", <<>>, B[p])>> ELSE <<>>
    IN old \o new

RECURSIVE FtEntries(_, _, _)
FtEntries(A, B, ps) ==
    IF ps = <<>> THEN <<>> ELSE FtEntriesAt(A, B, Head(ps)) \o FtEntries(A, B, Tail(ps))

\* OverleafBroker.filetree_diff: GET filetree/diff?from=..&to=..
filetree_diff(from_, to_) ==
    FtEntries(snaps[from_], snaps[to_], OrderedPaths(Universe))

TextAt(t, p) == IF t[p].kind = "doc" THEN t[p].text ELSE <<>>

\* The versions in (from_, to_] whose edit changed the text at path p.
Touching(from_, to_, p) ==
    {v \in (from_ + 1)..to_ : TextAt(snaps[v - 1], p) # TextAt(snaps[v], p)}

\* The users of a set of versions, in the order their fragments appear.
UsersOf(vs) == SelectSeq(textOrder, LAMBDA u : \E v \in vs : steps[v] = u)

RECURSIVE CommonPrefix(_, _)
CommonPrefix(s, t) ==
    IF s = <<>> \/ t = <<>> \/ Head(s) # Head(t) THEN <<>>
    ELSE <<Head(s)>> \o CommonPrefix(Tail(s), Tail(t))

Fragment(tag, text, us, ts) == [tags |-> {tag}, text |-> text, users |-> us, end_ts |-> ts]

\* OverleafBroker.diff: GET diff?from=..&to=..&pathname=..: the unchanged
\* prefix, then what was deleted, then what was inserted.
diff(from_, to_, p) ==
    LET old == TextAt(snaps[from_], p)
        new == TextAt(snaps[to_], p)
        pre == CommonPrefix(old, new)
        n == Len(pre)
        vs == Touching(from_, to_, p)
        us == UsersOf(vs)
        ts == IF vs = {} THEN 0 ELSE StepTs(SetMax(vs))
    IN (IF n > 0 THEN <<Fragment("u", pre, <<>>, 0)>> ELSE <<>>)
       \o (IF Len(old) > n THEN <<Fragment("d", SubSeq(old, n + 1, Len(old)), us, ts)>> ELSE <<>>)
       \o (IF Len(new) > n THEN <<Fragment("i", SubSeq(new, n + 1, Len(new)), us, ts)>> ELSE <<>>)

-----------------------------------------------------------------------------
(***************************************************************************)
(* Replay of one window on the local file tree (OverleafProject._migrate). *)
(* A local tree maps each path to its text, <<>> for "no such file".       *)
(***************************************************************************)
\* No content was made yet.
NoContent == [ok |-> FALSE, text |-> <<0>>]

\* The fragments that add to the content whatever their other tags are:
\* _diff_to_content without its assertion.
RECURSIVE DiffToContentUnchecked(_)
DiffToContentUnchecked(d) ==
    IF d = <<>> THEN [ok |-> TRUE, text |-> <<>>]
    ELSE IF Head(d).tags \cap {"u", "i"} # {}
         THEN [ok |-> TRUE, text |-> Head(d).text \o DiffToContentUnchecked(Tail(d)).text]
         ELSE DiffToContentUnchecked(Tail(d))

\* _apply_changes_diff._diff_to_content
RECURSIVE _diff_to_content(_)
_diff_to_content(d) ==
    IF d = <<>> THEN [ok |-> TRUE, text |-> <<>>]
    ELSE LET f == Head(d)
             rest == _diff_to_content(Tail(d))
         IN IF Cardinality(f.tags \cap {"u", "i", "d"}) # 1
            THEN [ok |-> FALSE, text |-> <<>>]
            ELSE IF ~rest.ok THEN rest
            ELSE IF f.tags \cap {"u", "i"} # {}
                 THEN [ok |-> TRUE, text |-> f.text \o rest.text]
                 ELSE rest

\* A local path that has files below it is a directory.
IsDir(tree, p) == \E q \in DOMAIN tree : IsPrefix(p, q) /\ tree[q] # <<>>

\* A local path below a regular file cannot be created.
UnderFile(tree, p) == \E q \in DOMAIN tree : IsPrefix(q, p) /\ tree[q] # <<>>

\* "added" / "edited": the file is written with the content c = [ok, text].
WriteContent(r, pathname, c) ==
    IF UnderFile(r.tree, pathname) \/ IsDir(r.tree, pathname) THEN [r EXCEPT !.err = "OSError"]
    ELSE IF ~c.ok THEN [r EXCEPT !.err = "AssertionError"]
    ELSE [r EXCEPT !.tree[pathname] = c.text]

\* One entry of _apply_changes_diff applied to r = [tree, err].
ApplyDiffEntry(r, from_v, to_v, e) ==
    IF r.err # "" THEN r
    ELSE IF e.operation \in {"added", "edited"} THEN
        WriteContent(r, e.pathname, _diff_to_content(diff(from_v, to_v, e.pathname)))
    ELSE IF e.operation = "removed" THEN
        IF IsDir(r.tree, e.pathname) THEN [r EXCEPT !.err = "OSError"]
        ELSE [r EXCEPT !.tree[e.pathname] = <<>>]
    ELSE IF e.operation = "renamed" THEN
        IF r.tree[e.pathname] = <<>> THEN [r EXCEPT !.err = "FileNotFoundError"]
        ELSE IF UnderFile(r.tree, e.newPathname) \/ IsDir(r.tree, e.newPathname)
             THEN [r EXCEPT !.err = "OSError"]
        ELSE [r EXCEPT !.tree[e.newPathname] = r.tree[e.pathname],
                       !.tree[e.pathname] = <<>>]
    ELSE [r EXCEPT !.err = "ValueError"]

RECURSIVE ApplyDiffEntries(_, _, _, _)
ApplyDiffEntries(r, from_v, to_v, es) ==
    IF es = <<>> THEN r
    ELSE ApplyDiffEntries(ApplyDiffEntry(r, from_v, to_v, Head(es)), from_v, to_v, Tail(es))

\* OverleafProject._apply_changes_diff
_apply_changes_diff(tree, from_v, to_v, entries) ==
    ApplyDiffEntries([tree |-> tree, err |-> ""], from_v, to_v, entries)

\* _apply_changes_zip, first loop: the removed and renamed paths are removed.
RECURSIVE ZipRemove(_, _)
ZipRemove(tree, es) ==
    IF es = <<>> THEN tree
    ELSE ZipRemove(IF Head(es).operation \in {"removed", "renamed"}
                   THEN [tree EXCEPT ![Head(es).pathname] = <<>>] ELSE tree,
                   Tail(es))

\* OverleafBroker.download_zip + unzip: every file of the snapshot is written.
Unzip(tree, snap) ==
    [p \in DOMAIN tree |-> IF IsFile(snap[p]) THEN snap[p].text ELSE tree[p]]

\* OverleafProject._apply_changes_zip
_apply_changes_zip(tree, to_v, entries) ==
    [tree |-> Unzip(ZipRemove(tree, entries), snaps[to_v]), err |-> ""]

\* _migrate: the entries that carry an operation.
WithOperation(entries) == SelectSeq(entries, LAMBDA e : e.operation # "")

\* _.get("editable", True): an entry without the flag counts as editable.
Editable(e) == IF "editable" \in DOMAIN e THEN e.editable ELSE TRUE

\* _migrate with the diff path taken only if every entry is editable.
UseDiffPathEditableOnly(entries) ==
    \A i \in 1..Len(entries) : Editable(entries[i])

\* _migrate: the diff path is taken iff every entry is editable or is removed
\* or renamed.
UseDiffPath(entries) ==
    \A i \in 1..Len(entries) :
        Editable(entries[i]) \/ entries[i].operation \in {"removed", "renamed"}

\* The outcome r = [tree, err] of the file operations made on the path
\* "diff" or "zip".
Via(path, r) == [tree |-> r.tree, err |-> r.err, path |-> path]

\* _migrate on the entries that carry an operation: [tree, err, path].
ApplyChanges(tree, from_v, to_v, entries) ==
    IF UseDiffPath(entries)
    THEN Via("diff", _apply_changes_diff(tree, from_v, to_v, entries))
    ELSE Via("zip", _apply_changes_zip(tree, to_v, entries))

\* OverleafProject._migrate, the file operations: [tree, err, path].
MigrateTree(tree, from_v, to_v) ==
    ApplyChanges(tree, from_v, to_v, WithOperation(filetree_diff(from_v, to_v)))

-----------------------------------------------------------------------------
(***************************************************************************)
(* OverleafProject._migrate_update: one update becomes one commit, or is   *)
(* split into one commit per span.  A span is [from_v, to_v, ts, user].    *)
(***************************************************************************)
RECURSIVE AppendNew(_, _)
AppendNew(us, more) ==
    IF more = <<>> THEN us
    ELSE AppendNew(IF Head(more) \in RangeOf(us) THEN us ELSE Append(us, Head(more)),
                   Tail(more))

\* Inner loop of _get_filetree_diff_users_ts over the fragments of one file.
RECURSIVE FragmentsUsersTs(_, _)
FragmentsUsersTs(acc, d) ==
    IF d = <<>> THEN acc
    ELSE FragmentsUsersTs(
            IF Head(d).tags \cap {"i", "d"} # {}
            THEN [users |-> AppendNew(acc.users, Head(d).users),
                  ts |-> IF Head(d).end_ts > acc.ts THEN Head(d).end_ts ELSE acc.ts]
            ELSE acc,
            Tail(d))

RECURSIVE EntriesUsersTs(_, _, _, _)
EntriesUsersTs(acc, from_, to_, es) ==
    IF es = <<>> THEN acc
    ELSE EntriesUsersTs(
            IF Head(es).operation = "" THEN acc
            ELSE FragmentsUsersTs(acc, diff(from_, to_, Head(es).pathname)),
            from_, to_, Tail(es))

\* _migrate_update._get_filetree_diff_users_ts
_get_filetree_diff_users_ts(from_, to_) ==
    EntriesUsersTs([users |-> <<>>, ts |-> 0], from_, to_, filetree_diff(from_, to_))

Span(from_v, to_v, ts, user) == [from_v |-> from_v, to_v |-> to_v, ts |-> ts, user |-> user]

\* `next(user for user in users if user is not current_user)`: the dicts of
\* a new response are never the object held in current_user, so the first
\* user of the list is taken.
OtherUser(us, current_user) == us[1]

\* Where a run closed at the probe (from_v, v) ends: _migrate(from_v, v - 1, ..).
RunEnd(v) == v - 1

NextFromProbe(v) == v

\* Where the next run starts: from_v = v - 1.
NextFrom(v) == v - 1

\* The loop state st = [from_v, current_user, ts, spans, err] after the run
\* that ends before the probe (from_v, v) is migrated and closed.
CloseRun(st, v, ts, next_user) ==
    IF ~(v - 1 > st.from_v) THEN [st EXCEPT !.ts = ts, !.err = "AssertionError"]
    ELSE [st EXCEPT !.ts = ts,
                    !.spans = Append(@, Span(st.from_v, RunEnd(v), ts, st.current_user)),
                    !.from_v = NextFrom(v),
                    !.current_user = next_user]

\* The body of the loop `for v in range(from_v + 1, toV)` once the probe
\* (from_v, v) has answered pr = [users, ts].
SplitStep(st, v, pr) ==
    IF Len(pr.users) = 0 THEN [st EXCEPT !.ts = pr.ts]
    ELSE IF Len(pr.users) = 1 THEN
         IF st.current_user = NoUser
         THEN [st EXCEPT !.ts = pr.ts, !.current_user = pr.users[1]]
         ELSE IF st.current_user # pr.users[1] THEN CloseRun(st, v, pr.ts, pr.users[1])
         ELSE [st EXCEPT !.ts = pr.ts]
    ELSE IF Len(pr.users) = 2 THEN
         IF st.current_user = NoUser THEN [st EXCEPT !.ts = pr.ts, !.err = "AssertionError"]
         ELSE CloseRun(st, v, pr.ts, OtherUser(pr.users, st.current_user))
    ELSE [st EXCEPT !.ts = pr.ts, !.err = "ValueError"]

SplitBody(st, v) == SplitStep(st, v, _get_filetree_diff_users_ts(st.from_v, v))

\* The versions the split loop probes: range(fromV + 1, toV).
ProbeRange(fromV, toV) == (fromV + 1)..(toV - 1)

RECURSIVE SplitLoop(_, _, _)
SplitLoop(st, v, toV) ==
    IF st.err # "" \/ v \notin ProbeRange(st.fromV, toV) THEN st
    ELSE SplitLoop(SplitBody(st, v), v + 1, toV)

\* The else clause of the loop: the last run goes up to toV.
SplitFlush(st, toV) ==
    IF st.err # "" THEN [spans |-> st.spans, err |-> st.err]
    ELSE [spans |-> Append(st.spans, Span(st.from_v, toV, st.ts, st.current_user)),
          err |-> ""]

\* _migrate_update: the spans that are migrated, in order, and the error
\* that ends the split early ("" if none).
MigrateUpdateSpans(update) ==
    IF Len(update.users) = 1
    THEN [spans |-> <<Span(update.fromV, update.toV, update.end_ts \div 1000, update.users[1])>>,
          err |-> ""]
    ELSE SplitFlush(SplitLoop([fromV |-> update.fromV, from_v |-> update.fromV,
                               current_user |-> NoUser, ts |-> update.end_ts,
                               spans |-> <<>>, err |-> ""],
                              update.fromV + 1, update.toV),
                    update.toV)

-----------------------------------------------------------------------------
(***************************************************************************)
(* The local repository (GitBroker).  A commit is                          *)
(* [parent, tree, msg, author, date]; msg is <<fromV, toV>> for the        *)
(* message "fromV->toV" of a replayed span and <<>> for a user's commit.   *)
(***************************************************************************)
Commit(parent, tree, msg, author, date) ==
    [parent |-> parent, tree |-> tree, msg |-> msg, author |-> author, date |-> date]

RECURSIVE Ancestor(_, _)
\* a is b or an ancestor of b.
Ancestor(a, b) ==
    IF b = 0 THEN FALSE
    ELSE IF a = b THEN TRUE
    ELSE Ancestor(a, commits[b].parent)

RECURSIVE MergeBase(_, _)
\* git merge-base a b: the nearest ancestor of b that is an ancestor of a.
MergeBase(a, b) ==
    IF b = 0 THEN 0
    ELSE IF Ancestor(b, a) THEN b
    ELSE MergeBase(a, commits[b].parent)

RECURSIVE Chain(_, _)
\* The commits after base up to tip, oldest first.
Chain(base, tip) ==
    IF tip = base \/ tip = 0 THEN <<>> ELSE Append(Chain(base, commits[tip].parent), tip)

\* GitBroker.local_overleaf_version: the toV of the message of the last
\* commit of the overleaf branch.
LocalVersionOf(cs, tip) == cs[tip].msg[2]

local_overleaf_version == LocalVersionOf(commits, overleaf)

\* GitBroker.commit on top of `tip`: the new list of commits.
GitCommit(cs, tip, tree, msg, author, date) ==
    Append(cs, Commit(tip, tree, msg, author, date))

\* The tree of a commit (the empty tree of the universe before any commit).
EmptyTree == [p \in Universe |-> <<>>]
TreeOf(cs, c) == IF c = 0 THEN EmptyTree ELSE cs[c].tree

\* Three-way merge of one path: the change base -> theirs applied to ours.
MergeConflict(base, theirs, ours) ==
    \E p \in DOMAIN ours :
        base[p] # theirs[p] /\ base[p] # ours[p] /\ theirs[p] # ours[p]

MergeTree(base, theirs, ours) ==
    [p \in DOMAIN ours |-> IF base[p] # theirs[p] THEN theirs[p] ELSE ours[p]]

\* git rebase: the commits of `list` replayed on r = [cs, tip, conflict]; a
\* commit whose change is already in the new base is dropped.
RECURSIVE Replay(_, _)
Replay(r, list) ==
    IF list = <<>> \/ r.conflict THEN r
    ELSE LET c == r.cs[Head(list)]
             base == TreeOf(r.cs, c.parent)
             ours == TreeOf(r.cs, r.tip)
         IN IF MergeConflict(base, c.tree, ours) THEN [r EXCEPT !.conflict = TRUE]
            ELSE IF MergeTree(base, c.tree, ours) = ours THEN Replay(r, Tail(list))
            ELSE Replay([cs |-> GitCommit(r.cs, r.tip, MergeTree(base, c.tree, ours),
                                          c.msg, c.author, c.date),
                         tip |-> Len(r.cs) + 1,
                         conflict |-> FALSE],
                        Tail(list))

\* The change a commit makes to the tree of its parent: what git's patch-id
\* is computed from.
PatchOf(c) ==
    {<<p, TreeOf(commits, commits[c].parent)[p], commits[c].tree[p]>> :
        p \in {q \in Universe : TreeOf(commits, commits[c].parent)[q] # commits[c].tree[q]}}

\* git rebase leaves out the commits of `list` whose change is the change
\* of a commit of `upstream`.
NotUpstream(list, upstream) ==
    SelectSeq(list, LAMBDA c : \A u \in RangeOf(upstream) : PatchOf(u) # PatchOf(c))

\* `git rebase overleaf working` from the merge base on.
RebaseFrom(base) ==
    IF base = overleaf THEN [cs |-> commits, tip |-> working, conflict |-> FALSE]
    ELSE Replay([cs |-> commits, tip |-> overleaf, conflict |-> FALSE],
                NotUpstream(Chain(base, working), Chain(base, overleaf)))

\* `git rebase overleaf working`: [cs, tip, conflict]; tip is the new commit
\* of branch working when the rebase succeeds.
GitRebase == RebaseFrom(MergeBase(overleaf, working))

\* GitBroker._update_working_branch_start_commit: `git tag -f ws overleaf`.
\* The commit the tag ws refers to after rebase_working_branch, given the
\* tip of the overleaf branch and whether the rebase reported a conflict.
TagAfterRebase(tip, old, conflict) == tip

-----------------------------------------------------------------------------
(***************************************************************************)
(* The server's side of the mutating requests.  A broker state b is        *)
(* [snaps, steps, updates, nid, merge, idx, calls, asked, err]: the remote *)
(* project, the id index cached by the client, the mutating requests sent, *)
(* the confirmations asked, and the exception that ended the run ("").     *)
(***************************************************************************)
RootId == 1

\* The account the tool is logged in with.
Me == "A"

\* Paths whose files the server stores as binary files, not editable docs.
BinaryPaths == { <<"b">> }

KindOfPath(p) == IF p \in BinaryPaths THEN "file" ELSE "doc"

Update(fromV, toV, us, end_ts) == [fromV |-> fromV, toV |-> toV, users |-> us, end_ts |-> end_ts]

LatestOf(sn) == SetMax(DOMAIN sn)
CurTree(b) == b.snaps[LatestOf(b.snaps)]

\* The server records a new version made by `actor`: it either extends its
\* newest update (b.merge) or starts a new one.
ServerNewVersion(b, tree, actor) ==
    LET v == LatestOf(b.snaps)
        ext == b.merge /\ b.updates # <<>>
    IN [b EXCEPT !.snaps = (v + 1 :> tree) @@ b.snaps,
                 !.steps = (v + 1 :> actor) @@ b.steps,
                 !.updates = IF ext
                             THEN <<Update(Head(b.updates).fromV, v + 1,
                                           AppendNew(Head(b.updates).users, <<actor>>),
                                           StepTs(v + 1))>> \o Tail(b.updates)
                             ELSE <<Update(v, v + 1, <<actor>>, StepTs(v + 1))>> \o b.updates,
                 !.merge = TRUE]

\* A change of folders only: no new version.
ServerInPlace(b, tree) == [b EXCEPT !.snaps[LatestOf(b.snaps)] = tree]

FolderPathOfId(t, id) ==
    IF id = RootId THEN <<>> ELSE CHOOSE p \in DOMAIN t : t[p].kind = "folder" /\ t[p].id = id

FolderExists(t, id) ==
    id = RootId \/ \E p \in DOMAIN t : t[p].kind = "folder" /\ t[p].id = id

\* POST upload?folder_id=..: the file `name` of that folder is created or
\* replaced.
ServerUpload(b, folder_id, name, text) ==
    LET t == CurTree(b)
        p == Append(FolderPathOfId(t, folder_id), name)
    IN IF ~FolderExists(t, folder_id) THEN [b EXCEPT !.err = "HTTPError"]
       ELSE IF p \notin DOMAIN t \/ t[p].kind = "folder" THEN [b EXCEPT !.err = "HTTPError"]
       ELSE IF IsFile(t[p])
            THEN ServerNewVersion(b, [t EXCEPT ![p].text = text], Me)
            ELSE [ServerNewVersion(b, [t EXCEPT ![p] = [kind |-> KindOfPath(p), id |-> b.nid,
                                                        text |-> text]], Me)
                    EXCEPT !.nid = b.nid + 1]

\* DELETE {type}/{id}: the entity and everything below it is removed.
ServerDelete(b, id, type) ==
    LET t == CurTree(b)
    IN IF ~\E p \in DOMAIN t : t[p].kind = type /\ t[p].id = id
       THEN [b EXCEPT !.err = "HTTPError"]
       ELSE LET p == CHOOSE q \in DOMAIN t : t[q].kind = type /\ t[q].id = id
                gone == {q \in DOMAIN t : q = p \/ IsPrefix(p, q)}
                t2 == [q \in DOMAIN t |-> IF q \in gone THEN NoEnt ELSE t[q]]
            IN IF \E q \in gone : IsFile(t[q])
               THEN ServerNewVersion(b, t2, Me)
               ELSE ServerInPlace(b, t2)

\* POST folder {name, parent_folder_id}
ServerCreateFolder(b, parent_id, name) ==
    LET t == CurTree(b)
        p == Append(FolderPathOfId(t, parent_id), name)
    IN IF ~FolderExists(t, parent_id) THEN [b EXCEPT !.err = "HTTPError"]
       ELSE IF p \notin DOMAIN t \/ t[p].kind # "none" THEN [b EXCEPT !.err = "HTTPError"]
       ELSE [ServerInPlace(b, [t EXCEPT ![p] = [kind |-> "folder", id |-> b.nid, text |-> <<>>]])
                EXCEPT !.nid = b.nid + 1]

-----------------------------------------------------------------------------
(***************************************************************************)
(* OverleafBroker: the id index and the mutating calls.                    *)
(***************************************************************************)
NoIdx == [valid |-> FALSE, tree |-> <<>>, root |-> FALSE]

\* OverleafBroker.refresh_indexed_file_ids: _original_file_ids and
\* _indexed_file_ids are dropped (_root_folder_id is kept).
refresh_indexed_file_ids(b) == [b EXCEPT !.idx.valid = FALSE, !.idx.tree = <<>>]

\* OverleafBroker.root_folder_json / indexed_ids: the cached folder tree and
\* its index, fetched on first use.
indexed_ids(b) ==
    IF b.idx.valid THEN b ELSE [b EXCEPT !.idx.valid = TRUE, !.idx.tree = CurTree(b)]

\* OverleafBroker.root_folder_id: cached for the life of the process.
root_folder_id(b) ==
    IF b.idx.root THEN b ELSE [indexed_ids(b) EXCEPT !.idx.root = TRUE]

\* The caches find_id_type(pathname) loads.
Loaded(b, pathname) == IF pathname = <<>> THEN root_folder_id(b) ELSE indexed_ids(b)

\* OverleafBroker.find_id_type on a broker whose caches are loaded: the
\* entity NoEnt stands for (None, None).
find_id_type(b, pathname) ==
    IF pathname = <<>> THEN [kind |-> "folder", id |-> RootId, text |-> <<>>]
    ELSE IF pathname \in DOMAIN b.idx.tree THEN b.idx.tree[pathname]
    ELSE NoEnt

Sent(b, call, pathname) == [b EXCEPT !.calls = Append(@, [call |-> call, pathname |-> pathname])]

Invoked(b, call, pathname) == [b EXCEPT !.ops = Append(@, [call |-> call, pathname |-> pathname])]

\* What create_folder does to the caches once its request is answered.
AfterCreateFolder(b) == refresh_indexed_file_ids(b)

\* create_folder once POST folder is answered with the broker state b2.
Created(b2) ==
    IF b2.err # "" THEN [b |-> b2, id |-> 0]
    ELSE [b |-> AfterCreateFolder(b2), id |-> b2.nid - 1]

\* create_folder(pathname) once its parent folder is par = [b, id].
CreateIn(par, pathname, dry_run) ==
    IF par.b.err # "" THEN par
    ELSE IF dry_run THEN [b |-> par.b, id |-> 0]
    ELSE Created(ServerCreateFolder(Sent(par.b, "create_folder", pathname),
                                    par.id, Basename(pathname)))

\* A missing folder taken for the root folder instead of being created.
FolderOfRoot(b, found, pathname, dry_run) ==
    IF found.kind = "none" THEN [b |-> root_folder_id(b), id |-> RootId]
    ELSE IF found.kind # "folder" THEN [b |-> [b EXCEPT !.err = "AssertionError"], id |-> 0]
    ELSE [b |-> b, id |-> found.id]

RECURSIVE create_folder(_, _, _)
RECURSIVE FolderOf(_, _, _, _)
\* The folder `pathname`, which find_id_type answered as `found`, made if it
\* is missing: [b, id].
FolderOf(b, found, pathname, dry_run) ==
    IF found.kind = "none" THEN create_folder(b, pathname, dry_run)
    ELSE IF found.kind # "folder" THEN [b |-> [b EXCEPT !.err = "AssertionError"], id |-> 0]
    ELSE [b |-> b, id |-> found.id]

\* find_id_type(pathname) and the folder of its answer.
FindFolder(b, pathname, dry_run) == FolderOf(b, find_id_type(b, pathname), pathname, dry_run)

\* OverleafBroker.create_folder: [b, id].
create_folder(b, pathname, dry_run) ==
    IF b.err # "" THEN [b |-> b, id |-> 0]
    ELSE IF pathname = <<>> THEN [b |-> root_folder_id(b), id |-> RootId]
    ELSE CreateIn(FindFolder(Loaded(b, Dirname(pathname)), Dirname(pathname), dry_run),
                  pathname, dry_run)

\* upload once the folder of the file is par = [b, id]: POST upload.
UploadInto(par, pathname, text) ==
    IF par.b.err # "" THEN par.b
    ELSE ServerUpload(Sent(par.b, "upload", pathname), par.id, Basename(pathname), text)

\* OverleafBroker.upload of the local file `pathname` holding `text`.
upload(b, pathname, text, dry_run) ==
    IF b.err # "" THEN b
    ELSE IF dry_run THEN Invoked(b, "upload", pathname)
    ELSE UploadInto(FindFolder(Loaded(Invoked(b, "upload", pathname), Dirname(pathname)),
                               Dirname(pathname), FALSE),
                    pathname, text)

\* input(...).strip().lower() in ["y", "yes"] for the folder `pathname`.
Confirmed(pathname, yes) == pathname \in yes

\* delete sending DELETE in dry-run mode too.
DeleteFoundSent(b, found, pathname, dry_run) ==
    IF found.kind \notin {"file", "doc", "folder"} THEN [b EXCEPT !.err = "ValueError"]
    ELSE ServerDelete(Sent(b, "delete", pathname), found.id, found.kind)

\* delete once find_id_type answered `found` and the user was asked: the
\* dry-run return, the type check, DELETE.
DeleteFound(b, found, pathname, dry_run) ==
    IF dry_run THEN b
    ELSE IF found.kind \notin {"file", "doc", "folder"} THEN [b EXCEPT !.err = "ValueError"]
    ELSE ServerDelete(Sent(b, "delete", pathname), found.id, found.kind)

\* delete without the question for a folder.
AskDeleteUnconfirmed(b, found, pathname, dry_run, yes) ==
    DeleteFound(b, found, pathname, dry_run)

\* delete once find_id_type answered `found`: a folder is confirmed first.
AskDelete(b, found, pathname, dry_run, yes) ==
    IF found.kind # "folder" THEN DeleteFound(b, found, pathname, dry_run)
    ELSE IF ~Confirmed(pathname, yes) THEN [b EXCEPT !.asked = Append(@, pathname)]
    ELSE DeleteFound([b EXCEPT !.asked = Append(@, pathname)], found, pathname, dry_run)

FindAndDelete(b, pathname, dry_run, yes) ==
    AskDelete(b, find_id_type(b, pathname), pathname, dry_run, yes)

\* OverleafBroker.delete; `yes` is the set of folders the user confirms.
delete(b, pathname, dry_run, yes) ==
    IF b.err # "" THEN b
    ELSE FindAndDelete(Loaded(Invoked(b, "delete", pathname), pathname), pathname, dry_run, yes)

-----------------------------------------------------------------------------
(***************************************************************************)
(* OverleafProject._push and _push_prune.  A line of                       *)
(* `git diff --name-status ws` is the sequence of its columns: the status  *)
(* code, a sequence whose head is the status letter (<<"M">>, <<"R", 100>>)*)
(* and the path columns that follow it.  Column n of the code is line[n+1].*)
(***************************************************************************)
StatusLine(code, cols) == <<code>> \o cols

\* The match statement of _push with the case "R" taken as an addition of
\* the new path.
ClassifyLineRenameAsAdd(r, line) ==
    IF r.err # "" THEN r
    ELSE IF line[1][1] \in {"M", "A", "R"} THEN
        [r EXCEPT !.upload_list = Append(@, line[Len(line)])]
    ELSE IF line[1][1] = "D" THEN
        [r EXCEPT !.delete_list = Append(@, line[2])]
    ELSE [r EXCEPT !.err = "ValueError"]

\* The match statement of _push with `case _: pass`.
ClassifyLineSkipsOther(r, line) ==
    IF r.err # "" THEN r
    ELSE IF line[1][1] \in {"M", "A"} THEN
        [r EXCEPT !.upload_list = Append(@, line[2])]
    ELSE IF line[1][1] = "D" THEN
        [r EXCEPT !.delete_list = Append(@, line[2])]
    ELSE IF line[1][1] = "R" THEN
        [r EXCEPT !.delete_list = Append(@, line[2]),
                  !.upload_list = Append(@, line[3])]
    ELSE r

\* The match statement of _push on one line, on r = [delete_list,
\* upload_list, err].
ClassifyLine(r, line) ==
    IF r.err # "" THEN r
    ELSE IF line[1][1] \in {"M", "A"} THEN
        IF Len(line) # 2 THEN [r EXCEPT !.err = "AssertionError"]
        ELSE [r EXCEPT !.upload_list = Append(@, line[2])]
    ELSE IF line[1][1] = "D" THEN
        IF Len(line) # 2 THEN [r EXCEPT !.err = "AssertionError"]
        ELSE [r EXCEPT !.delete_list = Append(@, line[2])]
    ELSE IF line[1][1] = "R" THEN
        IF Len(line) # 3 THEN [r EXCEPT !.err = "AssertionError"]
        ELSE [r EXCEPT !.delete_list = Append(@, line[2]),
                       !.upload_list = Append(@, line[3])]
    ELSE [r EXCEPT !.err = "ValueError"]

RECURSIVE ClassifyLines(_, _)
ClassifyLines(r, lines) ==
    IF lines = <<>> THEN r ELSE ClassifyLines(ClassifyLine(r, Head(lines)), Tail(lines))

Classify(lines) ==
    LET r == ClassifyLines([delete_list |-> <<>>, upload_list |-> <<>>, err |-> ""], lines)
    IN IF r.err = "" /\ Len(r.delete_list) + Len(r.upload_list) = 0
       THEN [r EXCEPT !.err = "AssertionError"] ELSE r

RECURSIVE DeleteAll(_, _, _, _)
DeleteAll(b, list, dry_run, yes) ==
    IF list = <<>> THEN b ELSE DeleteAll(delete(b, Head(list), dry_run, yes), Tail(list), dry_run, yes)

RECURSIVE UploadAll(_, _, _, _)
UploadAll(b, list, tree, dry_run) ==
    IF list = <<>> THEN b
    ELSE UploadAll(upload(b, Head(list), tree[Head(list)], dry_run), Tail(list), tree, dry_run)

\* The two loops of _push in the other order: uploads, then deletes.
PushCallsUploadsFirst(b, cl, tree, dry_run, yes) ==
    DeleteAll(UploadAll(b, cl.upload_list, tree, dry_run), cl.delete_list, dry_run, yes)

\* _push after the classification: the two loops over delete_list and
\* upload_list, on the files of the working tree `tree`.
PushCalls(b, cl, tree, dry_run, yes) ==
    UploadAll(DeleteAll(b, cl.delete_list, dry_run, yes), cl.upload_list, tree, dry_run)

\* refresh_updates, refresh_indexed_file_ids at the end of _push, which an
\* exception raised before does not reach.
Refreshed(b) == IF b.err # "" THEN b ELSE refresh_indexed_file_ids(b)

PushClassified(b, cl, tree, dry_run, yes) ==
    IF cl.err # "" THEN [b EXCEPT !.err = cl.err]
    ELSE Refreshed(PushCalls(b, cl, tree, dry_run, yes))

\* OverleafProject._push from the status lines on: the broker state after
\* the batch.
PushBatchOf(b, lines, tree, dry_run, yes) ==
    PushClassified(b, Classify(lines), tree, dry_run, yes)

\* `sub_folder["_id"] not in empty_folders`: an id is looked up in a list of
\* pathnames, where it never is.
ListedEmpty(t, sub, empty_folders) == FALSE

ChildFolders(t, p) ==
    SelectSeq(OrderedPaths(DOMAIN t), LAMBDA q : Len(q) > 0 /\ Dirname(q) = p /\ t[q].kind = "folder")

HasDirectFiles(t, p) == \E q \in DOMAIN t : Len(q) > 0 /\ Dirname(q) = p /\ IsFile(t[q])

\* empty_folders._traverse_folders on folder p of tree t: the list
\* empty_folders after the call.  TraverseSubs is its loop over the
\* sub-folders: [list, all_sub_folders_empty].
RECURSIVE _traverse_folders(_, _, _)
RECURSIVE TraverseSubs(_, _, _)
TraverseSubs(t, subs, empty_folders) ==
    IF subs = <<>> THEN [list |-> empty_folders, all |-> TRUE]
    ELSE LET e1 == _traverse_folders(t, Head(subs), empty_folders)
         IN IF ~ListedEmpty(t, Head(subs), e1) THEN [list |-> e1, all |-> FALSE]
            ELSE TraverseSubs(t, Tail(subs), e1)

_traverse_folders(t, p, empty_folders) ==
    LET r == TraverseSubs(t, ChildFolders(t, p), empty_folders)
    IN IF r.all /\ ~HasDirectFiles(t, p) THEN Append(r.list, p) ELSE r.list

RECURSIVE TraverseRoots(_, _, _)
TraverseRoots(t, roots, empty_folders) ==
    IF roots = <<>> THEN empty_folders
    ELSE TraverseRoots(t, Tail(roots), _traverse_folders(t, Head(roots), empty_folders))

\* OverleafProject.empty_folders on the cached folder tree.
empty_folders(t) == TraverseRoots(t, ChildFolders(t, <<>>), <<>>)

\* _push_prune on a broker whose folder tree is loaded.
PruneLoaded(b, dry_run, yes) == DeleteAll(b, empty_folders(b.idx.tree), dry_run, yes)

\* OverleafProject._push_prune
_push_prune(b, dry_run, yes) == PruneLoaded(indexed_ids(b), dry_run, yes)

-----------------------------------------------------------------------------
(***************************************************************************)
(* `git diff --name-status ws` on the working branch.                      *)
(***************************************************************************)
Deleted(old, new) == {p \in DOMAIN old : old[p] # <<>> /\ new[p] = <<>>}
Added(old, new) == {p \in DOMAIN old : old[p] = <<>> /\ new[p] # <<>>}

FirstOf(S) == CHOOSE p \in S : \A q \in S : \E i, j \in 1..Len(PathOrder) :
                    PathOrder[i] = p /\ PathOrder[j] = q /\ i <= j

\* git's rename detection: an added path q is the new name of the first
\* deleted path that held the same text, if q is the first such added path;
\* the similarity of the two files is 100 then (status code R100).
RenamedFrom(old, new, q) ==
    LET src == {p \in Deleted(old, new) : old[p] = new[q]}
    IN IF q \in Added(old, new) /\ src # {}
          /\ q = FirstOf({r \in Added(old, new) : new[r] = old[FirstOf(src)]})
       THEN <<FirstOf(src)>> ELSE <<>>

IsRenameSource(old, new, p) ==
    \E q \in Added(old, new) : RenamedFrom(old, new, q) = <<p>>

StatusAt(old, new, p) ==
    IF old[p] = new[p] THEN <<>>
    ELSE IF p \in Added(old, new) THEN
        IF RenamedFrom(old, new, p) # <<>>
        THEN <<StatusLine(<<"R", 100>>, <<RenamedFrom(old, new, p)[1], p>>)>>
        ELSE <<StatusLine(<<"A">>, <<p>>)>>
    ELSE IF p \in Deleted(old, new) THEN
        IF IsRenameSource(old, new, p) THEN <<>> ELSE <<StatusLine(<<"D">>, <<p>>)>>
    ELSE <<StatusLine(<<"M">>, <<p>>)>>

RECURSIVE StatusLines(_, _, _)
StatusLines(old, new, ps) ==
    IF ps = <<>> THEN <<>>
    ELSE StatusAt(old, new, Head(ps)) \o StatusLines(old, new, Tail(ps))

\* GitBroker.working_branch_status
working_branch_status ==
    StatusLines(TreeOf(commits, ws), TreeOf(commits, working), OrderedPaths(Universe))

\* GitBroker.is_current_branch_clean
is_current_branch_clean == ~dirty /\ ~rebasing

\* OverleafProject.new_working_commit_exists
new_working_commit_exists == working # ws

\* GitBroker.is_identical_working_overleaf
is_identical_working_overleaf == TreeOf(commits, working) = TreeOf(commits, overleaf)

\* The files of a remote tree, as a local tree.
Files(t) == [p \in DOMAIN t |-> IF IsFile(t[p]) THEN t[p].text ELSE <<>>]

-----------------------------------------------------------------------------
(***************************************************************************)
(* The commands.  A command runs from pc = "idle" through its steps back   *)
(* to "done", where `result` holds its exit status.                        *)
(***************************************************************************)
NoOp == [cmd |-> "none", phase |-> "none", stash |-> FALSE, prune |-> FALSE, dry_run |-> FALSE]

NoHist == [chkLocal |-> 0, chkRemote |-> 0, checked |-> FALSE, ahead |-> FALSE,
           newRev |-> FALSE, wsBefore |-> 0, rebased |-> FALSE, conflict |-> FALSE,
           asked |-> <<>>, pushed |-> FALSE, update |-> <<>>, before |-> 0, spans |-> <<>>,
           paths |-> <<>>, err |-> "",
           replays |-> 0, firstTree |-> <<>>, replayTree |-> <<>>, replayErr |-> ""]

\* The folders a confirmation can be asked for.
FolderPaths == {p \in Universe : \E q \in Universe : IsPrefix(p, q)}

\* A new process: the caches of OverleafBroker are empty.
Begin(cmd, phase, stash, prune, dry_run) ==
    /\ pc = "idle"
    /\ op' = [cmd |-> cmd, phase |-> phase, stash |-> stash, prune |-> prune, dry_run |-> dry_run]
    /\ idx' = NoIdx
    /\ stashed' = FALSE
    /\ calls' = <<>>
    /\ ops' = <<>>
    /\ status' = <<>>
    /\ result' = "running"
    /\ \E yes \in SUBSET FolderPaths : answers' = yes

\* The command ends with exit status res.
Exit(res) == pc' = "done" /\ result' = res

\* OverleafBroker.updates: the cached list, fetched when the cache is empty.
CachedUpdates == IF cache # <<>> THEN cache ELSE updates

\* new_remote_overleaf_rev answering "new" for equal versions too.
VersionCheckNewOnEqual(remote_overleaf_version, local_version) ==
    [ok |-> remote_overleaf_version >= local_version,
     new |-> remote_overleaf_version >= local_version]

\* OverleafProject.new_remote_overleaf_rev: [ok, new]; ok is the assertion
\* remote_overleaf_version >= local_overleaf_version.
VersionCheck(remote_overleaf_version, local_version) ==
    [ok |-> remote_overleaf_version >= local_version,
     new |-> remote_overleaf_version > local_version]

\* OverleafBroker.remote_overleaf_version: the toV of the newest update.
remote_overleaf_version == CachedUpdates[1].toV

new_remote_overleaf_rev == VersionCheck(remote_overleaf_version, local_overleaf_version)

Checked(h) == [h EXCEPT !.chkLocal = local_overleaf_version,
                        !.chkRemote = remote_overleaf_version,
                        !.checked = TRUE]

\* The updates in the order of the server's list: newest first.
NewestFirst(us) == us

\* ---- init
\* OverleafProject.init up to the migration of _git_repo_init: git init,
\* switch_to_overleaf_branch(create=True), all updates queued oldest first.
MigrationOrder(us) == Reverse(us)

StartInit ==
    /\ overleaf = 0
    /\ Begin("init", "init", FALSE, FALSE, FALSE)
    /\ pc' = "migrate"
    /\ head' = "overleaf"
    /\ cache' = updates
    /\ todo' = MigrationOrder(updates)
    /\ hist' = NoHist
    /\ UNCHANGED <<remoteVars, commits, overleaf, working, ws, dirty, stashes, rebasing, vtags>>
    /\ UNCHANGED diffVars

\* ---- _migrate_updates, one update per step
\* The message of the commit of a span: f"{from_v}->{to_v}".
CommitMsg(from_v, to_v) == <<from_v, to_v>>

AuthorOf(user) == IF user = NoUser THEN "Unknown" ELSE user

\* _migrate committing the span whatever its file operations ended as.
CommitSpanAnyway(r, sp, mt) ==
    [cs |-> GitCommit(r.cs, r.tip, mt.tree, CommitMsg(sp.from_v, sp.to_v),
                      AuthorOf(sp.user), sp.ts),
     tip |-> Len(r.cs) + 1,
     err |-> mt.err,
     paths |-> Append(r.paths, mt.path)]

\* OverleafProject._migrate of the span sp on r = [cs, tip, err, paths], mt
\* being the outcome of its file operations: git add, git commit.  paths
\* lists the path each committed window was replayed on.
CommitSpan(r, sp, mt) ==
    IF mt.err # "" THEN [r EXCEPT !.err = mt.err]
    ELSE [cs |-> GitCommit(r.cs, r.tip, mt.tree, CommitMsg(sp.from_v, sp.to_v),
                           AuthorOf(sp.user), sp.ts),
          tip |-> Len(r.cs) + 1,
          err |-> "",
          paths |-> Append(r.paths, mt.path)]

RECURSIVE MigrateSpans(_, _)
MigrateSpans(r, spans) ==
    IF spans = <<>> \/ r.err # "" THEN r
    ELSE MigrateSpans(CommitSpan(r, Head(spans),
                                 MigrateTree(TreeOf(r.cs, r.tip), Head(spans).from_v,
                                             Head(spans).to_v)),
                      Tail(spans))

\* The outcome [cs, tip, err, spans, paths] of an update split as
\* sp = [spans, err].
Migrated(r, sp) ==
    [cs |-> r.cs, tip |-> r.tip, spans |-> sp.spans, paths |-> r.paths,
     err |-> IF r.err = "" THEN sp.err ELSE r.err]

\* _migrate_update with its commits made on top of the working branch.
MigrateSplitOnWorking(sp) ==
    Migrated(MigrateSpans([cs |-> commits, tip |-> working, err |-> "", paths |-> <<>>],
                          sp.spans), sp)

MigrateSplit(sp) ==
    Migrated(MigrateSpans([cs |-> commits, tip |-> overleaf, err |-> "", paths |-> <<>>],
                          sp.spans), sp)

\* _migrate_update(update) on the overleaf branch: [cs, tip, err, spans, paths].
MigrateUpdate(update) == MigrateSplit(MigrateUpdateSpans(update))

\* The repository and the process after _migrate_update ended as r.
MigrateStep(r) ==
    /\ Len(r.cs) <= MaxCommits
    /\ commits' = r.cs
    /\ overleaf' = r.tip
    /\ IF r.err # ""
       THEN Exit(r.err) /\ todo' = <<>> /\ dirty' = TRUE
       ELSE pc' = pc /\ result' = result /\ todo' = Tail(todo) /\ dirty' = dirty
    /\ hist' = [hist EXCEPT !.update = Head(todo),
                            !.before = overleaf,
                            !.spans = r.spans,
                            !.paths = r.paths,
                            !.err = r.err,
                            !.replays = IF r.err = "" THEN 1 ELSE 0,
                            !.firstTree = TreeOf(r.cs, r.tip)]

MigrateNext ==
    /\ pc = "migrate"
    /\ todo # <<>>
    /\ MigrateStep(MigrateUpdate(Head(todo)))
    /\ UNCHANGED <<remoteVars, working, ws, head, stashes, rebasing, vtags,
                   op, cache, idx, stashed, calls, ops, status, answers>>
    /\ UNCHANGED diffVars

\* _git_repo_init without its last line: the branches and the tag are set,
\* the overleaf branch stays checked out.
InitFinishNoSwitch ==
    /\ pc = "migrate" /\ todo = <<>> /\ op.phase = "init"
    /\ overleaf # 0
    /\ working' = overleaf
    /\ ws' = overleaf
    /\ head' = head
    /\ Exit("OK")
    /\ UNCHANGED <<remoteVars, commits, overleaf, dirty, stashes, rebasing, vtags,
                   op, cache, idx, todo, stashed, calls, ops, status, answers, hist>>
    /\ UNCHANGED diffVars

\* _git_repo_init, after the migration: switch_to_working_branch(force=True).
InitFinish ==
    /\ pc = "migrate" /\ todo = <<>> /\ op.phase = "init"
    /\ overleaf # 0
    /\ working' = overleaf
    /\ ws' = overleaf
    /\ head' = "working"
    /\ Exit("OK")
    /\ UNCHANGED <<remoteVars, commits, overleaf, dirty, stashes, rebasing, vtags,
                   op, cache, idx, todo, stashed, calls, ops, status, answers, hist>>
    /\ UNCHANGED diffVars

\* ---- pull
StartPullWith(stash, prune, dry_run) ==
    /\ overleaf # 0 /\ working # 0
    /\ Begin("pull", "pull", stash, prune, dry_run)
    /\ pc' = "pull_check"
    /\ cache' = <<>>
    /\ todo' = <<>>
    /\ hist' = NoHist
    /\ UNCHANGED <<remoteVars, gitVars>>
    /\ UNCHANGED diffVars

\* `pull` with any of --no-stash, --prune, --dry-run.
StartPull == \E stash, prune, dry_run \in BOOLEAN : StartPullWith(stash, prune, dry_run)

\* `pull` with no option: pull(stash=True, prune=False, dry_run=False).
StartPullPlain == StartPullWith(TRUE, FALSE, FALSE)

\* sync going on to push whatever pull returned.
PullReturnsThenPush(res) ==
    IF op.cmd = "sync"
    THEN pc' = "push_begin" /\ op' = [op EXCEPT !.phase = "push"] /\ result' = result
    ELSE Exit(res) /\ op' = op

\* pull returns res: under sync, push follows an OK.
PullReturns(res) ==
    IF op.cmd = "sync" /\ res = "OK"
    THEN pc' = "push_begin" /\ op' = [op EXCEPT !.phase = "push"] /\ result' = result
    ELSE Exit(res) /\ op' = op

\* What is observed when push is invoked after the pull of sync.
EnterPush(h, res) ==
    IF op.cmd = "sync" /\ res = "OK"
    THEN [h EXCEPT !.ahead = RemoteVersion > local_overleaf_version]
    ELSE h

\* pull: the version check and the no-op return.
PullCheck ==
    /\ pc = "pull_check"
    /\ cache' = CachedUpdates
    /\ IF ~new_remote_overleaf_rev.ok
       THEN Exit("AssertionError") /\ op' = op /\ hist' = Checked(hist)
       ELSE IF ~new_remote_overleaf_rev.new /\ ~op.prune
       THEN PullReturns("OK") /\ hist' = EnterPush(Checked(hist), "OK")
       ELSE /\ pc' = "pull_stash" /\ op' = op /\ result' = result
            /\ hist' = [Checked(hist) EXCEPT !.newRev = new_remote_overleaf_rev.new]
    /\ UNCHANGED <<remoteVars, gitVars, idx, todo, stashed, calls, ops, status, answers>>
    /\ UNCHANGED diffVars

\* OverleafProject._pull_push_stash(stash), then on to pc `next`.
PullPushStash(stash, next) ==
    IF stash
    THEN IF rebasing
         THEN Exit("GIT_ERROR") /\ UNCHANGED <<head, dirty, stashes, stashed>>
         ELSE /\ dirty => stashes < MaxStash
              /\ head' = "working"
              /\ stashed' = dirty
              /\ stashes' = IF dirty THEN stashes + 1 ELSE stashes
              /\ dirty' = FALSE
              /\ pc' = next /\ result' = result
    ELSE IF ~is_current_branch_clean
         THEN Exit("WORKING_TREE_DIRTY_ERROR") /\ UNCHANGED <<head, dirty, stashes, stashed>>
         ELSE pc' = next /\ result' = result /\ stashed' = FALSE
              /\ UNCHANGED <<head, dirty, stashes>>

PullStash ==
    /\ pc = "pull_stash"
    /\ PullPushStash(op.stash, IF hist.newRev THEN "pull_select" ELSE "pull_rebase")
    /\ UNCHANGED <<remoteVars, commits, overleaf, working, ws, rebasing, vtags,
                   op, cache, idx, todo, calls, ops, status, answers, hist>>
    /\ UNCHANGED diffVars

\* _pull: takewhile(lambda rev: rev["toV"] > local_overleaf_version, updates)
RECURSIVE TakeWhileNewer(_, _)
TakeWhileNewer(us, local) ==
    IF us = <<>> \/ ~(Head(us).toV > local) THEN <<>>
    ELSE <<Head(us)>> \o TakeWhileNewer(Tail(us), local)

\* _pull with the fromV of every upcoming update set to the local version.
ClampedEvery(upcoming, local) ==
    IF Last(upcoming).fromV < local
    THEN [i \in 1..Len(upcoming) |-> [upcoming[i] EXCEPT !.fromV = local]]
    ELSE upcoming

\* _pull: the oldest upcoming update starts at the local version at least.
Clamped(upcoming, local) ==
    IF Last(upcoming).fromV < local
    THEN [upcoming EXCEPT ![Len(upcoming)].fromV = local]
    ELSE upcoming

\* _pull up to _migrate_updates: the upcoming updates are selected, the
\* overleaf branch is checked out, the updates are queued oldest first.
PullSelect ==
    /\ pc = "pull_select"
    /\ LET local == local_overleaf_version
           upcoming == TakeWhileNewer(CachedUpdates, local)
       IN IF Len(upcoming) = 0 \/ ~is_current_branch_clean
          THEN Exit("AssertionError") /\ UNCHANGED <<cache, todo, head>>
          ELSE /\ cache' = Clamped(upcoming, local)
                           \o SubSeq(CachedUpdates, Len(upcoming) + 1, Len(CachedUpdates))
               /\ todo' = IF op.dry_run THEN <<>> ELSE MigrationOrder(Clamped(upcoming, local))
               /\ head' = "overleaf"
               /\ pc' = "migrate" /\ result' = result
    /\ UNCHANGED <<remoteVars, commits, overleaf, working, ws, dirty, stashes, rebasing,
                   vtags, op, idx, stashed, calls, ops, status, answers, hist>>
    /\ UNCHANGED diffVars

\* GitBroker.rebase_working_branch, `git rebase overleaf working` having
\* ended as r = [cs, tip, conflict]: the tag ws is set.
RebaseEnds(r) ==
    /\ Len(r.cs) <= MaxCommits
    /\ ws' = TagAfterRebase(overleaf, ws, r.conflict)
    /\ IF r.conflict
       THEN rebasing' = TRUE /\ head' = "detached" /\ UNCHANGED <<commits, working>>
       ELSE rebasing' = FALSE /\ head' = "working"
            /\ commits' = r.cs /\ working' = r.tip

Rebased(h, r) == [h EXCEPT !.wsBefore = ws, !.rebased = TRUE, !.conflict = r.conflict]

\* OverleafProject._pull_push_stash_pop, given the branch checked out.
PullPushStashPop(branch) ==
    IF stashed /\ branch = "working"
    THEN stashes' = stashes - 1 /\ dirty' = TRUE
    ELSE UNCHANGED <<stashes, dirty>>

\* The broker state of the running process; `merge`: the server extends its
\* newest update by the next version instead of starting a new update.
ToBroker(merge) ==
    [snaps |-> snaps, steps |-> steps, updates |-> updates, nid |-> nextId, merge |-> merge,
     idx |-> idx, calls |-> calls, ops |-> ops, asked |-> hist.asked, err |-> ""]

RemoteIs(b) ==
    /\ snaps' = b.snaps
    /\ steps' = b.steps
    /\ updates' = b.updates
    /\ nextId' = b.nid

\* The tree of the branch that is checked out.
CheckedOut == IF head = "overleaf" THEN TreeOf(commits, overleaf) ELSE TreeOf(commits, working)

\* The top-level directories of a local tree.
LocalDirs(tree) == {SubSeq(q, 1, 1) : q \in {r \in DOMAIN tree : Len(r) > 1 /\ tree[r] # <<>>}}

\* OverleafProject._pull_prune: rmdir of the local top-level folders that are
\* no remote folder; rmdir of a folder that holds files raises OSError.
_pull_prune(b, tree, dry_run) ==
    LET b1 == indexed_ids(b)
        stale == {p \in LocalDirs(tree) :
                     ~(p \in DOMAIN b1.idx.tree /\ b1.idx.tree[p].kind = "folder")}
    IN IF stale # {} /\ ~dry_run THEN [b1 EXCEPT !.err = "OSError"] ELSE b1

AfterPull(phase) == pc = "pull_rebase" \/ (pc = "migrate" /\ todo = <<>> /\ op.phase = phase)

\* pull after _pull_prune: the rebase of the working branch ended as r.
PullRebased(r) ==
    /\ RebaseEnds(r)
    /\ IF r.conflict
       THEN /\ PullReturns("PULL_ERROR") /\ UNCHANGED <<stashes, dirty>>
            /\ hist' = Rebased(hist, r)
       ELSE /\ PullReturns("OK") /\ PullPushStashPop("working")
            /\ hist' = EnterPush(Rebased(hist, r), "OK")

\* pull after _pull, the broker being b after _pull_prune.
PullPruned(b) ==
    /\ idx' = b.idx
    /\ IF b.err # ""
       THEN /\ Exit(b.err) /\ op' = op /\ hist' = hist
            /\ UNCHANGED <<commits, working, ws, head, rebasing, stashes, dirty>>
       ELSE PullRebased(GitRebase)

\* pull, after _pull: _pull_prune, the rebase of the working branch, the
\* stash pop.
PullRebase ==
    /\ AfterPull("pull")
    /\ op.phase = "pull"
    /\ PullPruned(IF op.prune THEN _pull_prune(ToBroker(FALSE), CheckedOut, op.dry_run)
                  ELSE ToBroker(FALSE))
    /\ UNCHANGED <<remoteVars, overleaf, vtags, cache, todo, stashed, calls, ops,
                   status, answers>>
    /\ UNCHANGED diffVars

\* ---- push
StartPushWith(prune, dry_run) ==
    /\ overleaf # 0 /\ working # 0
    /\ Begin("push", "push", TRUE, prune, dry_run)
    /\ pc' = "push_begin"
    /\ cache' = <<>>
    /\ todo' = <<>>
    /\ hist' = [NoHist EXCEPT !.ahead = RemoteVersion > local_overleaf_version]
    /\ UNCHANGED <<remoteVars, gitVars>>
    /\ UNCHANGED diffVars

\* `push` with any of --prune, --dry-run.
StartPush == \E prune, dry_run \in BOOLEAN : StartPushWith(prune, dry_run)

\* sync: pull(prune, dry_run), then push(prune, dry_run) in the same process.
StartSync ==
    /\ overleaf # 0 /\ working # 0
    /\ \E prune, dry_run \in BOOLEAN : Begin("sync", "pull", TRUE, prune, dry_run)
    /\ pc' = "pull_check"
    /\ cache' = <<>>
    /\ todo' = <<>>
    /\ hist' = NoHist
    /\ UNCHANGED <<remoteVars, gitVars>>
    /\ UNCHANGED diffVars

\* push(prune=True): _push_prune left the broker as b; OK is returned.
PushPruned(b) ==
    /\ RemoteIs(b) /\ UNCHANGED <<textOrder, editors, room>>
    /\ idx' = b.idx /\ calls' = b.calls /\ ops' = b.ops
    /\ hist' = [hist EXCEPT !.asked = b.asked]
    /\ Exit(IF b.err # "" THEN b.err ELSE "OK")
    /\ cache' = cache

\* push: the version check chk = [ok, new].
PushChecked(chk) ==
    IF ~chk.ok THEN Exit("AssertionError")
    ELSE IF chk.new THEN Exit("PUSH_ERROR")
    ELSE pc' = "push_stash" /\ result' = result

\* push up to _pull_push_stash: the prune-only run, the no-op return, the
\* version check.
PushBegin ==
    /\ pc = "push_begin"
    /\ IF op.prune
       THEN PushPruned(_push_prune(ToBroker(FALSE), op.dry_run, answers))
       ELSE /\ UNCHANGED <<remoteVars, idx, calls, ops>>
            /\ IF ~new_working_commit_exists
               THEN Exit("OK") /\ cache' = cache /\ hist' = hist
               ELSE /\ cache' = CachedUpdates
                    /\ hist' = Checked(hist)
                    /\ PushChecked(new_remote_overleaf_rev)
    /\ UNCHANGED <<gitVars, op, todo, stashed, status, answers>>
    /\ UNCHANGED diffVars

PushStash ==
    /\ pc = "push_stash"
    /\ PullPushStash(TRUE, "push_batch")
    /\ UNCHANGED <<remoteVars, commits, overleaf, working, ws, rebasing, vtags,
                   op, cache, idx, todo, calls, ops, status, answers, hist>>
    /\ UNCHANGED diffVars

\* Versions a run of the model spans at most, pushes included.
VersionRoom == room + Cardinality(Universe)

BaseVersion == CHOOSE v \in DOMAIN snaps : \A w \in DOMAIN snaps : v <= w

\* _push left the broker as b.
Pushed(b) ==
    /\ LatestOf(b.snaps) - BaseVersion <= VersionRoom
    /\ RemoteIs(b) /\ UNCHANGED <<textOrder, editors, room>>
    /\ idx' = b.idx /\ calls' = b.calls /\ ops' = b.ops
    /\ hist' = [hist EXCEPT !.asked = b.asked, !.pushed = (b.err = "")]
    /\ IF b.err # ""
       THEN Exit(b.err) /\ cache' = cache
       ELSE pc' = "pull_select" /\ result' = result /\ cache' = <<>>

\* OverleafProject._push: the status lines are classified, the deletes and
\* uploads are sent, the caches are refreshed; _pull follows.
PushBatch ==
    /\ pc = "push_batch"
    /\ status' = working_branch_status
    /\ \E merge \in BOOLEAN :
          Pushed(PushBatchOf(ToBroker(merge), working_branch_status,
                             TreeOf(commits, working), op.dry_run, answers))
    /\ UNCHANGED <<gitVars, op, todo, stashed, answers>>
    /\ UNCHANGED diffVars

\* The status lines when the modified paths of S changed their type (a
\* regular file committed as a symbolic link): git prints T for them.
TypeChanged(lines, S) ==
    [i \in 1..Len(lines) |->
        IF lines[i][1] = <<"M">> /\ lines[i][2] \in S
        THEN StatusLine(<<"T">>, <<lines[i][2]>>) ELSE lines[i]]

\* _push on a working branch whose commit changed the type of some of the
\* files it modified.
PushBatchTyped ==
    /\ pc = "push_batch"
    /\ \E S \in SUBSET Universe :
          /\ TypeChanged(working_branch_status, S) # working_branch_status
          /\ status' = TypeChanged(working_branch_status, S)
          /\ \E merge \in BOOLEAN :
                Pushed(PushBatchOf(ToBroker(merge), TypeChanged(working_branch_status, S),
                                   TreeOf(commits, working), op.dry_run, answers))
    /\ UNCHANGED <<gitVars, op, todo, stashed, answers>>
    /\ UNCHANGED diffVars

\* GitBroker.tag_working_branch: `git tag <tag> working` fails on a tag name
\* that exists.
TagExists(tag) == \E t \in vtags : t[1] = tag

\* push after the version tag: the rebase ended as r; its result is not
\* looked at.
PushRebased(r) ==
    /\ RebaseEnds(r)
    /\ hist' = Rebased(hist, r)
    /\ PullPushStashPop(IF r.conflict THEN "detached" ELSE "working")
    /\ Exit("OK")

\* push, after _pull: the version tag, the rebase, the stash pop.
PushFinish ==
    /\ AfterPull("push")
    /\ op.phase = "push"
    /\ IF TagExists(local_overleaf_version)
       THEN /\ Exit("GIT_ERROR") /\ hist' = hist
            /\ UNCHANGED <<commits, working, ws, head, rebasing, vtags, stashes, dirty>>
       ELSE /\ vtags' = vtags \cup {<<local_overleaf_version, working>>}
            /\ PushRebased(GitRebase)
    /\ UNCHANGED <<remoteVars, overleaf, op, cache, idx, todo, stashed, calls, ops,
                   status, answers>>
    /\ UNCHANGED diffVars

\* The process is gone: nothing of its memory is left for the next command.
Terminate ==
    /\ pc = "done"
    /\ pc' = "idle"
    /\ op' = NoOp
    /\ result' = "none"
    /\ cache' = <<>>
    /\ idx' = NoIdx
    /\ todo' = <<>>
    /\ stashed' = FALSE
    /\ calls' = <<>>
    /\ ops' = <<>>
    /\ status' = <<>>
    /\ answers' = {}
    /\ hist' = NoHist
    /\ UNCHANGED <<remoteVars, gitVars>>
    /\ UNCHANGED diffVars

\* ---- the user, between two commands
\* The trees the working directory can hold: no file below a file.
LocalTrees ==
    {t \in [Universe -> Texts \cup {<<>>}] : \A p \in Universe : t[p] # <<>> => ~IsDir(t, p)}

\* The user commits a change of the files on the working branch.
UserCommit ==
    /\ pc = "idle" /\ working # 0 /\ head = "working" /\ ~rebasing
    /\ Len(commits) < MaxCommits
    /\ Len(Chain(MergeBase(overleaf, working), working)) < MaxWork
    /\ \E tree \in LocalTrees :
          /\ tree # TreeOf(commits, working)
          /\ commits' = GitCommit(commits, working, tree, <<>>, Me, 0)
          /\ working' = Len(commits) + 1
    /\ dirty' = FALSE
    /\ UNCHANGED <<remoteVars, overleaf, ws, head, stashes, rebasing, vtags, procVars>>
    /\ UNCHANGED diffVars

\* The user leaves uncommitted changes in the working tree.
UserEdit ==
    /\ pc = "idle" /\ working # 0 /\ head = "working" /\ ~rebasing /\ ~dirty
    /\ stashes < MaxStash
    /\ dirty' = TRUE
    /\ UNCHANGED <<remoteVars, commits, overleaf, working, ws, head, stashes, rebasing,
                   vtags, procVars>>
    /\ UNCHANGED diffVars

\* After "Fix conflicts and run `git rebase --continue`": the user gives up
\* the rebase (`git rebase --abort`).
RebaseAbort ==
    /\ pc = "idle" /\ rebasing
    /\ rebasing' = FALSE
    /\ head' = "working"
    /\ UNCHANGED <<remoteVars, commits, overleaf, working, ws, dirty, stashes, vtags, procVars>>
    /\ UNCHANGED diffVars

\* The user keeps the own text of every path changed on the working branch.
Resolved(base, theirs, ours) ==
    [p \in DOMAIN ours |-> IF base[p] # ours[p] THEN ours[p] ELSE theirs[p]]

\* ... or resolves the conflicts and continues: the working branch becomes one
\* commit on top of the overleaf branch.
RebaseContinue ==
    /\ pc = "idle" /\ rebasing
    /\ Len(commits) < MaxCommits
    /\ commits' = GitCommit(commits, overleaf,
                            Resolved(TreeOf(commits, MergeBase(overleaf, working)),
                                     TreeOf(commits, overleaf), TreeOf(commits, working)),
                            <<>>, Me, 0)
    /\ working' = Len(commits) + 1
    /\ rebasing' = FALSE
    /\ head' = "working"
    /\ UNCHANGED <<remoteVars, overleaf, ws, dirty, stashes, vtags, procVars>>
    /\ UNCHANGED diffVars

\* ---- the other users of the remote project, at any time
ParentReady(t, p) == Len(p) = 1 \/ t[Dirname(p)].kind \in {"none", "folder"}

\* The remote tree with the folder of p in place.
WithParent(t, p, id) ==
    IF Len(p) > 1 /\ t[Dirname(p)].kind = "none"
    THEN [t EXCEPT ![Dirname(p)] = [kind |-> "folder", id |-> id, text |-> <<>>]]
    ELSE t

FilePaths(t) == {p \in DOMAIN t : p \notin FolderPaths}

\* The trees one edit in the web editor can make out of t: a file is written
\* (made if it is missing) ...
WrittenTrees(t, id) ==
    {[WithParent(t, p, id + 1) EXCEPT ![p] =
         IF IsFile(t[p]) THEN [t[p] EXCEPT !.text = text]
         ELSE [kind |-> KindOfPath(p), id |-> id, text |-> text]] :
         p \in {q \in FilePaths(t) : ParentReady(t, q)}, text \in Texts}

\* ... is removed ...
RemovedTrees(t) == {[t EXCEPT ![p] = NoEnt] : p \in {q \in FilePaths(t) : IsFile(t[q])}}

\* ... or is renamed.
RenamedTrees(t, id) ==
    {[WithParent(t, pq[2], id + 1) EXCEPT ![pq[1]] = NoEnt, ![pq[2]] = t[pq[1]]] :
        pq \in {x \in FilePaths(t) \X FilePaths(t) :
                   IsFile(t[x[1]]) /\ t[x[2]].kind = "none" /\ ParentReady(t, x[2])}}

\* The steps before which the tool looks at the remote project next: an edit
\* made during its local steps is one made right before these.
AtRemoteAccess ==
    pc \in {"idle", "push_batch", "pull_select"} \/ (pc = "push_begin" /\ op.cmd = "sync")

\* One of `trees` becomes the next version of the project.
RemoteEdit(trees) ==
    /\ AtRemoteAccess
    /\ RemoteVersion - BaseVersion < room
    /\ \E actor \in editors, merge \in BOOLEAN, tree \in trees :
          /\ Files(tree) # Files(RemoteTree)
          /\ RemoteIs([ServerNewVersion(ToBroker(merge), tree, actor) EXCEPT !.nid = nextId + 2])
    /\ UNCHANGED <<textOrder, editors, room, gitVars, procVars>>
    /\ UNCHANGED diffVars

RemoteWrite == RemoteEdit(WrittenTrees(RemoteTree, nextId))

RemoteRemove == RemoteEdit(RemovedTrees(RemoteTree))

RemoteRename == RemoteEdit(RenamedTrees(RemoteTree, nextId))

-----------------------------------------------------------------------------
(***************************************************************************)
(* The tool on a project of one document, with a user who commits and      *)
(* other users who edit the remote project.                                *)
(***************************************************************************)
Doc(id, text) == [kind |-> "doc", id |-> id, text |-> text]

\* The project when the tool is first run on it: A made the document a, and
\* may have edited it since.
Created1 ==
    /\ snaps = (0 :> (<<"a">> :> NoEnt)) @@ (1 :> (<<"a">> :> Doc(2, <<1>>)))
    /\ steps = (1 :> "A")
    /\ updates = <<Update(0, 1, <<"A">>, StepTs(1))>>

Created2 ==
    /\ snaps = (0 :> (<<"a">> :> NoEnt)) @@ (1 :> (<<"a">> :> Doc(2, <<1>>)))
                 @@ (2 :> (<<"a">> :> Doc(2, <<2>>)))
    /\ steps = (1 :> "A") @@ (2 :> "A")
    /\ updates = <<Update(1, 2, <<"A">>, StepTs(2)), Update(0, 1, <<"A">>, StepTs(1))>>

\* time() when the model starts: seconds since 1970, far above the delay.
Epoch == 1000

\* self._download_zip_ts: float = 0 in a new OverleafBroker; no download yet.
NoDownloads ==
    /\ now = Epoch
    /\ download_zip_ts = 0
    /\ zips = <<>>

\* No repository yet, no process running.
NotInitialized ==
    /\ commits = <<>>
    /\ overleaf = 0 /\ working = 0 /\ ws = 0
    /\ head = "none"
    /\ dirty = FALSE /\ stashes = 0 /\ rebasing = FALSE
    /\ vtags = {}
    /\ pc = "idle" /\ op = NoOp /\ result = "none"
    /\ cache = <<>> /\ idx = NoIdx /\ todo = <<>>
    /\ stashed = FALSE /\ calls = <<>> /\ ops = <<>> /\ status = <<>>
    /\ answers = {}
    /\ hist = NoHist

Init ==
    /\ Created1 \/ Created2
    /\ nextId = 3
    /\ textOrder = <<"A", "B">>
    /\ editors = {"B"}
    /\ room = MaxV
    /\ NotInitialized
    /\ fetched = <<>> /\ written = NoContent
    /\ NoDownloads

Next ==
    \/ StartInit
    \/ MigrateNext
    \/ InitFinish
    \/ StartPull
    \/ StartPush
    \/ StartSync
    \/ PullCheck
    \/ PullStash
    \/ PullSelect
    \/ PullRebase
    \/ PushBegin
    \/ PushStash
    \/ PushBatch
    \/ PushFinish
    \/ Terminate
    \/ UserCommit
    \/ RebaseAbort
    \/ RebaseContinue
    \/ RemoteWrite

Spec == Init /\ [][Next]_vars

-----------------------------------------------------------------------------
(***************************************************************************)
(* `pull` on a repository whose mirror is at version 10, of a project of   *)
(* the documents a and d that A and B edit in the web editor.              *)
(***************************************************************************)
\* The process and the repository between two commands; the mirror holding
\* the one commit "0->v" of the remote tree t; ...
Quiet ==
    /\ head = "working"
    /\ dirty = FALSE /\ stashes = 0 /\ rebasing = FALSE
    /\ vtags = {}
    /\ pc = "idle" /\ op = NoOp /\ result = "none"
    /\ cache = <<>> /\ idx = NoIdx /\ todo = <<>>
    /\ stashed = FALSE /\ calls = <<>> /\ ops = <<>> /\ status = <<>>
    /\ answers = {}
    /\ hist = NoHist
    /\ fetched = <<>> /\ written = NoContent
    /\ NoDownloads

Mirrored(t, v) ==
    /\ commits = <<Commit(0, Files(t), <<0, v>>, Me, v)>>
    /\ overleaf = 1 /\ working = 1 /\ ws = 1
    /\ Quiet

\* ... and the working branch one commit of the user, of the tree `tree`,
\* ahead of it.
Forked(t, v, tree) ==
    /\ commits = <<Commit(0, Files(t), <<0, v>>, Me, v), Commit(1, tree, <<>>, Me, 0)>>
    /\ overleaf = 1 /\ working = 2 /\ ws = 1
    /\ Quiet

\* The remote project at version v with the tree t, made by one update of Me.
RemoteAt(t, v) ==
    /\ snaps = (v :> t)
    /\ steps = (v :> Me)
    /\ updates = <<Update(0, v, <<Me>>, StepTs(v))>>

InitSplit ==
    /\ RemoteAt((<<"a">> :> Doc(2, <<1>>)) @@ (<<"d">> :> NoEnt), 10)
    /\ nextId = 3
    /\ textOrder \in {<<"A", "B">>, <<"B", "A">>}
    /\ editors = Users
    /\ room = MaxWindow
    /\ Mirrored(RemoteTree, 10)

NextSplit ==
    \/ RemoteWrite
    \/ StartPullPlain
    \/ PullCheck
    \/ PullStash
    \/ PullSelect
    \/ MigrateNext
    \/ PullRebase
    \/ Terminate

SpecSplit == InitSplit /\ [][NextSplit]_vars

\* The users whose edits changed the text of a document in the sub-steps
\* from + 1 .. to.
ActiveUsers(from_, to_) ==
    {steps[v] : v \in {w \in (from_ + 1)..to_ : \E p \in Universe : w \in Touching(w - 1, w, p)}}

\* The commits the last migrated update made on the mirror branch, oldest
\* first, each as <<message, author>>.
Produced ==
    [i \in 1..Len(Chain(hist.before, overleaf)) |->
        <<commits[Chain(hist.before, overleaf)[i]].msg,
          commits[Chain(hist.before, overleaf)[i]].author>>]

SplitReplayed == hist.update # <<>> /\ Len(hist.update.users) >= 2

\* C4: with the mirror at version 10, the pull of the update {fromV 10, toV 12,
\* users [A, B]} whose sub-step 10->11 has activity of A only and whose
\* sub-step 11->12 has activity of B only makes exactly the two mirror
\* commits "10->11" by A and "11->12" by B, in this order.
C4_Scenario ==
    /\ pc = "done" /\ result = "OK" /\ op.cmd = "pull"
    /\ SplitReplayed
    /\ hist.update.fromV = 10 /\ hist.update.toV = 12
    /\ hist.update.users = <<"A", "B">>
    /\ ActiveUsers(10, 11) = {"A"}
    /\ ActiveUsers(11, 12) = {"B"}

C4_TwoCommitsByAThenB ==
    C4_Scenario => Produced = << <<CommitMsg(10, 11), "A">>, <<CommitMsg(11, 12), "B">> >>

\* C5: the commits made for an update of two or more users have spans
\* (f_0, t_0), ..., (f_n, t_n) with f_0 = fromV, f_(i+1) = t_i and f_i < t_i,
\* and t_n = toV once the update is replayed to its end: no gap, no overlap,
\* no empty span.
C5_SplitSpansCoverWindow ==
    SplitReplayed =>
        /\ \A i \in 1..Len(Produced) : Produced[i][1][1] < Produced[i][1][2]
        /\ \A i \in 1..(Len(Produced) - 1) : Produced[i + 1][1][1] = Produced[i][1][2]
        /\ Len(Produced) > 0 => Produced[1][1][1] = hist.update.fromV
        /\ hist.err = "" => /\ Len(Produced) > 0
                            /\ Produced[Len(Produced)][1][2] = hist.update.toV

C5_Witness ==
    /\ SplitReplayed /\ hist.err = ""
    /\ Len(Produced) >= 2
    /\ hist.update.toV - hist.update.fromV >= 3

\* C6: every commit made by splitting an update of several users covers
\* sub-steps with activity of one single user only, and is attributed to
\* that user.
C6_OneUserPerSplitCommit ==
    SplitReplayed =>
        \A i \in 1..Len(Produced) :
            /\ Cardinality(ActiveUsers(Produced[i][1][1], Produced[i][1][2])) <= 1
            /\ ActiveUsers(Produced[i][1][1], Produced[i][1][2]) \subseteq {Produced[i][2]}

-----------------------------------------------------------------------------
(***************************************************************************)
(* init, pull, push and sync interleaved with remote edits (Spec).         *)
(***************************************************************************)
\* The versions the check of new_remote_overleaf_rev is looked at for.
CheckedVersions == 0..(MaxV + 2)

\* C1: over init, pull, push and sync interleaved with remote edits the
\* version recorded in the last commit message of the mirror branch never
\* decreases; at every version check it is at most the toV of the remote's
\* newest update; and the check lets a run go on only if the recorded version
\* is not greater than the remote's: a greater one ends it with the
\* assertion error.
C1_RecordedVersionMonotone ==
    /\ [][overleaf # 0 =>
            /\ overleaf' # 0
            /\ LocalVersionOf(commits', overleaf') >= LocalVersionOf(commits, overleaf)]_vars
    /\ [](hist.checked => hist.chkLocal <= hist.chkRemote)
    /\ [](\A r, l \in CheckedVersions : VersionCheck(r, l).ok <=> l <= r)
    /\ []((hist.checked /\ hist.chkLocal > hist.chkRemote)
             => (pc = "done" /\ result = "AssertionError"))

C1_Witness ==
    /\ pc = "done" /\ result = "OK" /\ op.cmd \in {"pull", "sync"}
    /\ hist.checked
    /\ hist.chkLocal < hist.chkRemote
    /\ local_overleaf_version >= hist.chkRemote
    /\ Len(updates) >= 2

\* C2: when the rebase of the working branch onto the mirror branch reports
\* a conflict, the tag ws is on the commit it was on before the rebase; it
\* is on the new mirror tip only after a rebase that succeeded.
C2_ConflictKeepsForkPoint ==
    (hist.rebased /\ hist.conflict) => ws = hist.wsBefore

\* The state after a rebase that stopped on a conflict while the mirror had
\* moved on from the fork point.
C2_Scenario ==
    /\ pc = "done" /\ hist.rebased /\ hist.conflict
    /\ hist.wsBefore # overleaf

\* C3: once init is done, the tag ws is an ancestor of (or is) the mirror
\* tip and the working tip is a descendant of (or is) the tag ws, also in
\* the state a pull or push leaves whose rebase stopped on a conflict.
C3_ForkPointBetweenBranches ==
    (overleaf # 0 /\ working # 0 /\ ws # 0) =>
        (Ancestor(ws, overleaf) /\ Ancestor(ws, working))

\* C9: a push invoked while the remote's latest version is greater than the
\* recorded version ends with PUSH_ERROR and has sent no upload, delete or
\* create-folder request, whatever its flags.
C9_PushRefusedWhenRemoteAhead ==
    (pc = "done" /\ op.phase = "push" /\ hist.ahead) =>
        (result = "PUSH_ERROR" /\ calls = <<>>)

\* A push invoked with the remote ahead has ended.
C9_Scenario ==
    pc = "done" /\ op.phase = "push" /\ hist.ahead

-----------------------------------------------------------------------------
(***************************************************************************)
(* `push` of one commit of the user on a project of the document a, the     *)
(* binary file b and the folder d with the document d/c (SpecPush).        *)
(***************************************************************************)
File(id, text) == [kind |-> "file", id |-> id, text |-> text]
Folder(id) == [kind |-> "folder", id |-> id, text |-> <<>>]

\* The projects the mirror is made of: b missing, the folder d missing, the
\* folder d empty.
PushProjects ==
    { (<<"a">> :> Doc(2, <<1>>)) @@ (<<"b">> :> NoEnt)
         @@ (<<"d">> :> Folder(4)) @@ (<<"d", "c">> :> Doc(5, <<1>>)),
      (<<"a">> :> Doc(2, <<1>>)) @@ (<<"b">> :> File(3, <<1>>))
         @@ (<<"d">> :> NoEnt) @@ (<<"d", "c">> :> NoEnt),
      (<<"a">> :> Doc(2, <<1>>)) @@ (<<"b">> :> NoEnt)
         @@ (<<"d">> :> Folder(4)) @@ (<<"d", "c">> :> NoEnt) }

InitPush ==
    /\ \E t \in PushProjects : RemoteAt(t, 10)
    /\ nextId = 6
    /\ textOrder = <<"A", "B">>
    /\ editors = {}
    /\ room = 0
    /\ \E tree \in LocalTrees : tree # Files(RemoteTree) /\ Forked(RemoteTree, 10, tree)

NextPush ==
    \/ StartPush
    \/ PushBegin
    \/ PushStash
    \/ PushBatch
    \/ PullSelect
    \/ MigrateNext
    \/ PushFinish
    \/ Terminate

SpecPush == InitPush /\ [][NextPush]_vars

\* C7: in every push batch every remote delete call is issued before the
\* first remote upload call, both as requests sent to the server and as
\* calls of the broker; so the delete of a path precedes an upload to it.
C7_DeletesBeforeUploads ==
    /\ \A i, j \in 1..Len(calls) :
          (calls[i].call = "upload" /\ calls[j].call = "delete") => j < i
    /\ \A i, j \in 1..Len(ops) :
          (ops[i].call = "upload" /\ ops[j].call = "delete") => j < i

\* A batch that sent a delete and then an upload.
C7_Witness ==
    /\ hist.pushed
    /\ \E i, j \in 1..Len(calls) :
          i < j /\ calls[i].call = "delete" /\ calls[j].call = "upload"

\* The broker calls that the entries of the status lines stand for: the
\* deletes of the deleted and renamed-from paths, then the uploads of the
\* modified, added and renamed-to paths, each in the order of the lines.
RECURSIVE DeletesOf(_)
DeletesOf(lines) ==
    IF lines = <<>> THEN <<>>
    ELSE (IF Head(lines)[1][1] \in {"D", "R"}
          THEN <<[call |-> "delete", pathname |-> Head(lines)[2]]>> ELSE <<>>)
         \o DeletesOf(Tail(lines))

RECURSIVE UploadsOf(_)
UploadsOf(lines) ==
    IF lines = <<>> THEN <<>>
    ELSE (IF Head(lines)[1][1] \in {"M", "A"}
          THEN <<[call |-> "upload", pathname |-> Head(lines)[2]]>>
          ELSE IF Head(lines)[1][1] = "R"
          THEN <<[call |-> "upload", pathname |-> Head(lines)[3]]>> ELSE <<>>)
         \o UploadsOf(Tail(lines))

\* The similarity scores of a rename code.
RenameScores == {50, 75, 100}

\* C8: the push of the path-status list since the fork point calls upload
\* once for the path of each modified or added entry, delete once for the
\* path of each deleted entry, and delete of the old path and upload of the
\* new path for each renamed entry, whatever its rename score, the delete
\* before the upload; a batch that runs to its end makes these calls and no
\* other.
C8_ClassificationOfStatus ==
    /\ \A score \in RenameScores, old, new \in Universe :
          ClassifyLine([delete_list |-> <<>>, upload_list |-> <<>>, err |-> ""],
                       StatusLine(<<"R", score>>, <<old, new>>))
             = [delete_list |-> <<old>>, upload_list |-> <<new>>, err |-> ""]
    /\ hist.pushed => ops = DeletesOf(status) \o UploadsOf(status)

\* A batch of a renamed entry and another entry has run to its end.
C8_Witness ==
    /\ hist.pushed
    /\ Len(status) >= 2
    /\ \E i \in 1..Len(status) : status[i][1][1] = "R"

-----------------------------------------------------------------------------
(***************************************************************************)
(* `pull` of the edits B makes to a project of the documents a and d (d    *)
(* written, removed or renamed to), and the replay of the last window once *)
(* more (SpecReplay).                                                      *)
(***************************************************************************)
InitReplay ==
    /\ RemoteAt((<<"a">> :> Doc(2, <<1>>)) @@ (<<"d">> :> NoEnt), 10)
    /\ nextId = 3
    /\ textOrder = <<"A", "B">>
    /\ editors = {"B"}
    /\ room = MaxWindow
    /\ Mirrored(RemoteTree, 10)

\* The repository and the process after the file operations of a second
\* _migrate of the span sp ended as mt = [tree, err]: git add, git commit
\* --allow-empty, unless an exception ended the run.
Replayed(sp, mt) ==
    /\ hist' = [hist EXCEPT !.replays = 2, !.replayErr = mt.err, !.replayTree = mt.tree]
    /\ IF mt.err # ""
       THEN result' = mt.err /\ dirty' = TRUE /\ UNCHANGED <<commits, overleaf>>
       ELSE /\ result' = result /\ dirty' = dirty
            /\ commits' = GitCommit(commits, overleaf, mt.tree, CommitMsg(sp.from_v, sp.to_v),
                                    AuthorOf(sp.user), sp.ts)
            /\ overleaf' = Len(commits) + 1

\* OverleafProject._migrate of the span migrated last, once more, on the
\* mirror branch as the first replay left it.
ReplayAgain ==
    /\ pc = "done" /\ result = "OK"
    /\ hist.replays = 1 /\ hist.spans # <<>>
    /\ Len(commits) < MaxCommits
    /\ Replayed(Last(hist.spans),
                MigrateTree(TreeOf(commits, overleaf), Last(hist.spans).from_v,
                            Last(hist.spans).to_v))
    /\ UNCHANGED <<remoteVars, working, ws, head, stashes, rebasing, vtags,
                   pc, op, cache, idx, todo, stashed, calls, ops, status, answers>>
    /\ UNCHANGED diffVars

NextReplay ==
    \/ RemoteWrite
    \/ RemoteRemove
    \/ RemoteRename
    \/ StartPullPlain
    \/ PullCheck
    \/ PullStash
    \/ PullSelect
    \/ MigrateNext
    \/ PullRebase
    \/ ReplayAgain
    \/ Terminate

SpecReplay == InitReplay /\ [][NextReplay]_vars

\* C10: the replay of a window a second time on the mirror branch, with no
\* remote change in between, succeeds and leaves the tree the first replay
\* left, whatever entries (added, edited, removed, renamed) the window has.
C10_ReplayTwiceSameTree ==
    hist.replays = 2 => (hist.replayErr = "" /\ hist.replayTree = hist.firstTree)

\* A window was replayed a second time.
C10_Scenario ==
    hist.replays = 2 /\ hist.firstTree = TreeOf(commits, hist.before + Len(hist.spans))

-----------------------------------------------------------------------------
(***************************************************************************)
(* _diff_to_content on any answer of the server: up to MaxFragments        *)
(* fragments, each with any set of the kind tags.                          *)
(***************************************************************************)
KindTags == {"u", "i", "d"}

Fragments == {[tags |-> k, text |-> t, users |-> <<>>, end_ts |-> 0] :
                 k \in SUBSET KindTags, t \in Texts}

DiffOps == UNION {[1..n -> Fragments] : n \in 0..MaxFragments}

InitDiff ==
    /\ Created1
    /\ nextId = 3
    /\ textOrder = <<"A", "B">>
    /\ editors = {}
    /\ room = 0
    /\ NotInitialized
    /\ fetched \in DiffOps
    /\ written = NoContent
    /\ NoDownloads

\* f.write(_diff_to_content(self.overleaf_broker.diff(from_v, to_v, pathname)))
DiffToContent ==
    /\ written = NoContent
    /\ written' = _diff_to_content(fetched)
    /\ UNCHANGED <<remoteVars, gitVars, procVars, fetched, now, download_zip_ts, zips>>

NextDiff ==
    \/ DiffToContent

SpecDiff == InitDiff /\ [][NextDiff]_vars

WellTagged(f) == Cardinality(f.tags \cap KindTags) = 1

\* The texts of the fragments i..Len(d) of d that are not deleted ones.
RECURSIVE KeptFrom(_, _)
KeptFrom(d, i) ==
    IF i > Len(d) THEN <<>>
    ELSE (IF "d" \in d[i].tags THEN <<>> ELSE d[i].text) \o KeptFrom(d, i + 1)

\* C11: the content made of a DiffOp sequence is the texts of its unchanged
\* and inserted fragments in order, the deleted ones skipped; a sequence
\* with a fragment that has not exactly one kind tag gives no content.
C11_ContentOfFragments ==
    written # NoContent =>
        IF \A i \in 1..Len(fetched) : WellTagged(fetched[i])
        THEN written.ok /\ written.text = KeptFrom(fetched, 1)
        ELSE ~written.ok /\ written.text = <<>>

C11_Witness ==
    /\ written # NoContent /\ written.ok
    /\ Len(fetched) = 2
    /\ fetched[1].tags = {"d"} /\ fetched[2].tags = {"i"}
    /\ written.text = fetched[2].text

-----------------------------------------------------------------------------
(***************************************************************************)
(* The mirror branch, the no-op pull, the result of a rebase.              *)
(***************************************************************************)
RECURSIVE AncestorIn(_, _, _)
\* In the commits cs, a is b or an ancestor of b.
AncestorIn(cs, a, b) ==
    IF b = 0 THEN FALSE
    ELSE IF a = b THEN TRUE
    ELSE AncestorIn(cs, a, cs[b].parent)

\* The commits a step adds.
NewCommits == {i \in 1..Len(commits') : i > Len(commits)}

\* C12: the mirror branch is append-only: no commit is ever changed, the
\* old tip of the mirror is an ancestor of the new one, and a commit that
\* records a remote revision is made while the mirror branch is checked out,
\* on top of the mirror's tip; the mirror holds no other commit.
C12_MirrorAppendOnly ==
    /\ [][/\ SubSeq(commits', 1, Len(commits)) = commits
          /\ overleaf # 0 => AncestorIn(commits', overleaf, overleaf')
          /\ \A i \in NewCommits :
                commits'[i].msg # <<>> =>
                    /\ head = "overleaf"
                    /\ AncestorIn(commits', i, overleaf')
                    /\ AncestorIn(commits', overleaf, i) \/ overleaf = 0]_vars
    /\ [](\A i \in 1..Len(commits) : Ancestor(i, overleaf) => commits[i].msg # <<>>)

C12_Witness ==
    /\ pc = "done" /\ result = "OK" /\ op.cmd = "push"
    /\ hist.pushed
    /\ hist.before # 0 /\ hist.before # overleaf
    /\ Ancestor(hist.before, overleaf)
    /\ Ancestor(overleaf, working)

\* pull finds the mirror at the remote's latest version.
PullSeesEqual == pc = "pull_check" /\ remote_overleaf_version = local_overleaf_version

\* The step returns OK from pull (under sync, push is invoked next) and
\* leaves the repository and the stash as they are.
PullNoOp ==
    /\ gitVars' = gitVars
    /\ stashed' = stashed
    /\ calls' = calls
    /\ IF op.cmd = "sync" THEN pc' = "push_begin" ELSE pc' = "done" /\ result' = "OK"

\* C13 as stated: when the mirror's recorded version equals the remote's
\* latest toV, pull returns OK without a commit, a stash, a switch of
\* branch, a rebase or a move of the tag ws.
C13_EqualVersionPullIsNoOp == [][PullSeesEqual => PullNoOp]_vars

\* C13 amended: the same, for a pull that was not asked to prune.
C13_EqualVersionPullWithoutPruneIsNoOp ==
    [][(PullSeesEqual /\ ~op.prune) => PullNoOp]_vars

C13_Witness ==
    /\ pc = "done" /\ result = "OK" /\ op.cmd = "pull" /\ ~op.prune
    /\ hist.checked /\ hist.chkLocal = hist.chkRemote
    /\ ~hist.rebased
    /\ ~Ancestor(overleaf, working)

\* pull, push and sync on a repository whose mirror is at version 10 and
\* whose working branch is one commit of the user ahead, while another user
\* edits or removes the document in the web editor and the user leaves
\* uncommitted changes in the working tree.
InitRace ==
    /\ RemoteAt((<<"a">> :> Doc(2, <<1>>)), 10)
    /\ nextId = 3
    /\ textOrder = <<"A", "B">>
    /\ editors = {"B"}
    /\ room = MaxV
    /\ \E tree \in LocalTrees : tree # Files(RemoteTree) /\ Forked(RemoteTree, 10, tree)

NextRace ==
    \/ StartPull
    \/ StartPush
    \/ StartSync
    \/ PullCheck
    \/ PullStash
    \/ PullSelect
    \/ MigrateNext
    \/ PullRebase
    \/ PushBegin
    \/ PushStash
    \/ PushBatch
    \/ PushFinish
    \/ Terminate
    \/ RemoteWrite
    \/ RemoteRemove
    \/ UserEdit

SpecRace == InitRace /\ [][NextRace]_vars

\* C14: a command whose rebase of the working branch reported a conflict,
\* at the end of pull or at the end of push, alone or under sync, ends with
\* a result that is not OK.
C14_ConflictIsNotOK ==
    (pc = "done" /\ hist.rebased /\ hist.conflict) => result # "OK"

C14_Scenario ==
    /\ pc = "done" /\ op.phase = "push"
    /\ hist.rebased /\ hist.conflict
    /\ rebasing

-----------------------------------------------------------------------------
(***************************************************************************)
(* The replay of a pull.                                                   *)
(***************************************************************************)
\* A pull that replays the upcoming updates has replayed them all, or has
\* returned OK.
PullReplayed ==
    /\ op.cmd = "pull" /\ hist.newRev /\ ~op.dry_run
    /\ \/ pc = "migrate" /\ todo = <<>>
       \/ pc = "done" /\ result = "OK"

\* The messages <<fromV, toV>> of the commits the mirror got since the
\* version `local`, oldest first.
ReplayedSince(local) ==
    LET mirror == Chain(0, overleaf)
    IN [i \in 1..Len(SelectSeq(mirror, LAMBDA c : commits[c].msg[2] > local)) |->
           commits[SelectSeq(mirror, LAMBDA c : commits[c].msg[2] > local)[i]].msg]

\* The windows w start at `from`, each where the one before ended, and no
\* window is empty.
Ascending(w, from) ==
    \A i \in 1..Len(w) :
        /\ w[i][1] = (IF i = 1 THEN from ELSE w[i - 1][2])
        /\ w[i][1] < w[i][2]

\* The updates of the list us that are newer than `local`.
Upcoming(us, local) == SelectSeq(us, LAMBDA u : u.toV > local)

\* C15: after a pull that replayed the upcoming updates, the recorded
\* version is the toV of the newest update of the list the pull used, the
\* replayed windows go up from the version recorded before, oldest first,
\* and each upcoming update was replayed exactly once.
C15_ReplayedOldestFirstOnce ==
    PullReplayed =>
        /\ local_overleaf_version = cache[1].toV
        /\ Ascending(ReplayedSince(hist.chkLocal), hist.chkLocal)
        /\ \A i \in 1..Len(Upcoming(cache, hist.chkLocal)) :
              Cardinality({j \in 1..Len(ReplayedSince(hist.chkLocal)) :
                              ReplayedSince(hist.chkLocal)[j][2]
                                  = Upcoming(cache, hist.chkLocal)[i].toV}) = 1

C15_Witness ==
    /\ PullReplayed /\ pc = "done"
    /\ Len(Upcoming(cache, hist.chkLocal)) = 2
    /\ Len(ReplayedSince(hist.chkLocal)) = 2

-----------------------------------------------------------------------------
(***************************************************************************)
(* The id index and the confirmations of the mutating calls.               *)
(***************************************************************************)
\* C16: upload, delete and create_folder each drop the cached id index: an
\* index that is cached after this client sent mutating calls was built
\* after the last of them, so it is the folder tree of the project (which
\* no one else changes here).
C16_IndexBuiltAfterLastMutation ==
    (idx.valid /\ calls # <<>>) => idx.tree = RemoteTree

C16_Scenario ==
    /\ pc = "done"
    /\ idx.valid /\ idx.tree # RemoteTree
    /\ Len(calls) >= 2
    /\ calls[Len(calls)].call = "upload"

\* C17: with uncommitted changes in the working tree (no command line asks
\* for a stash: pull has --no-stash only, push has no option), pull and push
\* end with the dirty-working-tree error where they look at the working
\* tree, and leave the repository, the stash and the remote as they are.
C17_DirtyTreeRefused ==
    [][(pc \in {"pull_stash", "push_stash"} /\ dirty /\ ~rebasing) =>
          /\ pc' = "done" /\ result' = "WORKING_TREE_DIRTY_ERROR"
          /\ gitVars' = gitVars /\ remoteVars' = remoteVars
          /\ stashed' = stashed /\ calls' = calls]_vars

C17_Scenario ==
    /\ pc = "done" /\ result = "OK" /\ op.cmd = "push"
    /\ stashed /\ dirty
    /\ calls # <<>>

\* delete(pathname) in the current state of the process, the user
\* confirming the folders `yes`.
DeleteNow(pathname, dry_run, yes) == delete(ToBroker(FALSE), pathname, dry_run, yes)

\* What find_id_type(pathname) answers in the current state.
FoundNow(pathname) == find_id_type(Loaded(ToBroker(FALSE), pathname), pathname)

\* C18: whenever delete is called for a path that resolves to a folder, a
\* DELETE is sent only if the user was asked and answered yes; on any other
\* answer nothing is sent and the project is left as it is.  Every DELETE
\* of `push --prune` is one of a folder the user confirmed.
C18_FolderDeleteNeedsYes ==
    /\ \A p \in Universe, yes \in SUBSET FolderPaths, dry_run \in BOOLEAN :
          FoundNow(p).kind = "folder" =>
              /\ DeleteNow(p, dry_run, yes).calls # calls =>
                    /\ p \in yes
                    /\ Last(DeleteNow(p, dry_run, yes).asked) = p
              /\ p \notin yes =>
                    /\ DeleteNow(p, dry_run, yes).calls = calls
                    /\ DeleteNow(p, dry_run, yes).snaps = snaps
    /\ op.prune =>
          \A i \in 1..Len(calls) :
              /\ calls[i].call = "delete"
              /\ calls[i].pathname \in answers
              /\ calls[i].pathname \in RangeOf(hist.asked)

C18_Witness ==
    /\ pc = "done" /\ op.cmd = "push" /\ op.prune /\ ~op.dry_run
    /\ Len(calls) = 1 /\ calls[1].call = "delete"
    /\ calls[1].pathname \in answers
    /\ hist.asked = <<calls[1].pathname>>
    /\ Len(updates) = 1
    /\ RemoteTree[calls[1].pathname].kind = "none"

-----------------------------------------------------------------------------
(***************************************************************************)
(* sync on a repository whose mirror is at version 10 and whose working    *)
(* branch is one commit of the user ahead, of a project of the documents a *)
(* and d that another user edits in the web editor.                        *)
(***************************************************************************)
InitSync ==
    /\ RemoteAt((<<"a">> :> Doc(2, <<1>>)) @@ (<<"d">> :> NoEnt), 10)
    /\ nextId = 3
    /\ textOrder = <<"A", "B">>
    /\ editors = {"B"}
    /\ room = MaxWork
    /\ \E tree \in LocalTrees : tree # Files(RemoteTree) /\ Forked(RemoteTree, 10, tree)

NextSync ==
    \/ StartSync
    \/ PullCheck
    \/ PullStash
    \/ PullSelect
    \/ MigrateNext
    \/ PullRebase
    \/ PushBegin
    \/ PushStash
    \/ PushBatch
    \/ PushFinish
    \/ Terminate
    \/ RemoteWrite

SpecSync == InitSync /\ [][NextSync]_vars

\* The pull of the running sync ended well: every update it selected is
\* replayed and its rebase, if it made one, reported no conflict.
PullEndedWell == todo = <<>> /\ (hist.rebased => ~hist.conflict /\ ~rebasing)

\* C19: a sync runs pull, then push, then ends: push is invoked only when
\* pull has returned OK, after its replay and its rebase; a pull that fails
\* ends the sync with its result, which is not OK; no upload or delete is
\* sent while the sync is in its pull; a sync that returns OK has pushed.
C19_SyncPhasesInOrder ==
    /\ [][op.cmd = "sync" =>
            /\ (op.phase = "pull" /\ pc' # "idle") =>
                  \/ op'.cmd = "sync" /\ op'.phase = "pull" /\ calls' = <<>>
                  \/ /\ op'.cmd = "sync" /\ op'.phase = "push" /\ pc' = "push_begin"
                     /\ calls' = <<>>
                     /\ PullEndedWell'
            /\ op.phase = "push" =>
                  \/ op'.cmd = "sync" /\ op'.phase = "push" /\ pc' # "pull_check"
                  \/ pc = "done" /\ pc' = "idle"]_vars
    /\ []((pc = "done" /\ op.cmd = "sync" /\ op.phase = "pull") =>
             (result # "OK" /\ calls = <<>>))
    /\ []((pc = "done" /\ op.cmd = "sync" /\ result = "OK") => op.phase = "push")

C19_Witness ==
    /\ pc = "done" /\ op.cmd = "sync" /\ result = "OK"
    /\ hist.newRev /\ hist.pushed
    /\ calls # <<>>
    /\ Len(updates) = 3

-----------------------------------------------------------------------------
(***************************************************************************)
(* `push` of one commit of the user that may have changed the type of the  *)
(* files it modified.                                                      *)
(***************************************************************************)
NextStatus ==
    \/ StartPush
    \/ PushBegin
    \/ PushStash
    \/ PushBatch
    \/ PushBatchTyped
    \/ PullSelect
    \/ MigrateNext
    \/ PushFinish
    \/ Terminate

SpecStatus == InitPush /\ [][NextStatus]_vars

\* A line whose status letter is none of M, A, D, R.
Unsupported(lines) == \E i \in 1..Len(lines) : lines[i][1][1] \notin {"M", "A", "D", "R"}

\* C20: when the status list read by _push has a line of another kind than
\* M, A, D or R, the push ends with an error (ValueError, not OK) in that
\* step: no broker call is made and no request is sent for any line of the
\* list, and the remote project is left as it is.
C20_UnsupportedStatusFailsFirst ==
    /\ [][(pc = "push_batch" /\ Unsupported(status')) =>
            /\ pc' = "done" /\ result' = "ValueError"
            /\ calls' = <<>> /\ ops' = <<>>
            /\ remoteVars' = remoteVars]_vars
    /\ []((pc = "done" /\ Unsupported(status)) => (result # "OK" /\ calls = <<>>))

C20_Witness ==
    /\ pc = "done" /\ result = "ValueError"
    /\ Len(status) = 2
    /\ status[1][1] = <<"D">> /\ status[2][1] = <<"T">>
    /\ calls = <<>>

-----------------------------------------------------------------------------
(***************************************************************************)
(* `pull` of the edits B makes to a project of the document a and the      *)
(* binary file b: written, removed or renamed (SpecBin).                   *)
(***************************************************************************)
InitBin ==
    /\ RemoteAt((<<"a">> :> Doc(2, <<1>>)) @@ (<<"b">> :> NoEnt), 10)
    /\ nextId = 3
    /\ textOrder = <<"A", "B">>
    /\ editors = {"B"}
    /\ room = MaxV
    /\ Mirrored(RemoteTree, 10)

NextBin ==
    \/ RemoteWrite
    \/ RemoteRemove
    \/ RemoteRename
    \/ StartPullPlain
    \/ PullCheck
    \/ PullStash
    \/ PullSelect
    \/ MigrateNext
    \/ PullRebase
    \/ Terminate

SpecBin == InitBin /\ [][NextBin]_vars

\* _pull selects the upcoming updates and the oldest of them starts below
\* the recorded version.
ClampCase ==
    /\ pc = "pull_select" /\ pc' = "migrate"
    /\ Last(TakeWhileNewer(CachedUpdates, local_overleaf_version)).fromV < local_overleaf_version

\* The updates queued for the replay, oldest first, are the upcoming updates
\* `up` (newest first) with the fromV of the oldest set to `local`.
QueuedClamped(queue, up, local) ==
    /\ Len(queue) = Len(up)
    /\ queue[1] = [up[Len(up)] EXCEPT !.fromV = local]
    /\ queue[1].fromV < queue[1].toV
    /\ \A i \in 2..Len(up) : queue[i] = up[Len(up) + 1 - i]

\* C21: when the oldest upcoming update has fromV below the recorded
\* version, it is queued for the replay with fromV equal to the recorded
\* version, its toV and every other upcoming update as the server listed
\* them; the clamped window has fromV < toV, and the first commit of the pull
\* is made on the mirror tip with a message that starts at the recorded
\* version.
C21_OldestUpcomingClamped ==
    /\ [][ClampCase =>
            QueuedClamped(todo', TakeWhileNewer(CachedUpdates, local_overleaf_version),
                          local_overleaf_version)]_vars
    /\ [][(pc = "migrate" /\ op.phase = "pull" /\ hist.update = <<>>
             /\ Len(commits') > Len(commits)) =>
            /\ commits'[Len(commits) + 1].parent = overleaf
            /\ commits'[Len(commits) + 1].msg[1] = LocalVersionOf(commits, overleaf)]_vars

\* A pull replayed two upcoming updates, the older of which the server lists
\* from a version below the one that was recorded.
C21_Witness ==
    /\ PullReplayed /\ pc = "done"
    /\ Len(Upcoming(cache, hist.chkLocal)) = 2
    /\ Last(Upcoming(cache, hist.chkLocal)).fromV = hist.chkLocal
    /\ \E i \in 1..Len(updates) :
          /\ updates[i].toV = Last(Upcoming(cache, hist.chkLocal)).toV
          /\ updates[i].fromV < hist.chkLocal
    /\ Len(ReplayedSince(hist.chkLocal)) = 2
    /\ ReplayedSince(hist.chkLocal)[1][1] = hist.chkLocal

-----------------------------------------------------------------------------
(***************************************************************************)
(* `pull` from a server whose update list has gaps: a version of the       *)
(* project that no update of the list ends at (SpecGap).                   *)
(***************************************************************************)
\* An edit becomes the next version of the project and the server lists no
\* update for it.
RemoteUnlisted ==
    /\ AtRemoteAccess
    /\ RemoteVersion - BaseVersion < room
    /\ \E actor \in editors :
       \E tree \in WrittenTrees(RemoteTree, nextId) \cup RemovedTrees(RemoteTree) :
          /\ Files(tree) # Files(RemoteTree)
          /\ snaps' = (RemoteVersion + 1 :> tree) @@ snaps
          /\ steps' = (RemoteVersion + 1 :> actor) @@ steps
          /\ nextId' = nextId + 2
    /\ UNCHANGED <<updates, textOrder, editors, room, gitVars, procVars>>
    /\ UNCHANGED diffVars

InitGap ==
    /\ RemoteAt((<<"a">> :> Doc(2, <<1>>)) @@ (<<"b">> :> NoEnt), 10)
    /\ nextId = 3
    /\ textOrder = <<"A", "B">>
    /\ editors = {"B"}
    /\ room = MaxWindow
    /\ Mirrored(RemoteTree, 10)

NextGap ==
    \/ RemoteWrite
    \/ RemoteRemove
    \/ RemoteUnlisted
    \/ StartPullPlain
    \/ PullCheck
    \/ PullStash
    \/ PullSelect
    \/ MigrateNext
    \/ PullRebase
    \/ Terminate

SpecGap == InitGap /\ [][NextGap]_vars

\* The upcoming updates `up` (newest first) do not go up from `local` one
\* where the other ended.
HasGap(up, local) ==
    /\ up # <<>>
    /\ \/ Last(up).fromV > local
       \/ \E i \in 1..(Len(up) - 1) : up[i].fromV # up[i + 1].toV

\* C22: a pull whose upcoming updates have a gap (the oldest starts above
\* the recorded version, or one starts elsewhere than where the one replayed
\* before it ended) ends in the step that selects them with a result that is
\* not OK; so every commit of the mirror branch starts at the version its
\* parent ended at.
C22_GapIsReported ==
    /\ [][(pc = "pull_select"
             /\ HasGap(TakeWhileNewer(CachedUpdates, local_overleaf_version),
                       local_overleaf_version)) =>
            (pc' = "done" /\ result' # "OK" /\ commits' = commits)]_vars
    /\ [](\A c \in 1..Len(commits) :
            (commits[c].msg # <<>> /\ commits[c].parent # 0) =>
                commits[c].msg[1] = commits[commits[c].parent].msg[2])

\* A pull returned OK and the last commit of the mirror starts above the
\* version its parent ended at.
C22_Scenario ==
    /\ pc = "done" /\ result = "OK" /\ op.cmd = "pull"
    /\ commits[overleaf].parent # 0
    /\ commits[overleaf].msg[1] > commits[commits[overleaf].parent].msg[2]
    /\ TreeOf(commits, overleaf) # Files(snaps[local_overleaf_version])

-----------------------------------------------------------------------------
(***************************************************************************)
(* The path of a replayed window (SpecBin).                                *)
(***************************************************************************)
EntryOps == {"added", "edited", "removed", "renamed"}

\* Entries of a filetree diff with the flag `editable` set, cleared, or
\* missing.
SampleEntries ==
    {[pathname |-> <<"a">>, operation |-> o, newPathname |-> <<>>, editable |-> f] :
        o \in EntryOps, f \in BOOLEAN}
    \cup {[pathname |-> <<"a">>, operation |-> o, newPathname |-> <<>>] : o \in EntryOps}

\* The entry does not stand in the way of the diff path.
DiffEligible(e) ==
    \/ e.operation \in {"removed", "renamed"}
    \/ "editable" \notin DOMAIN e
    \/ e.editable

\* The entries with an operation of the i-th window of the update migrated
\* last.
WindowEntries(i) ==
    WithOperation(filetree_diff(hist.spans[i].from_v, hist.spans[i].to_v))

AllEligible(es) == \A k \in 1..Len(es) : DiffEligible(es[k])

\* The i-th commit made for the update migrated last, and the tree it was
\* made on.
WindowCommit(i) == commits[Chain(hist.before, overleaf)[i]]

\* The i-th window was replayed on the path `path`, on the tree `tree`.
ReplayedOn(i, path, tree) ==
    /\ hist.paths[i] = path
    /\ WindowCommit(i).msg = CommitMsg(hist.spans[i].from_v, hist.spans[i].to_v)
    /\ WindowCommit(i).tree = tree

\* C23: a window is replayed on the diff path iff every filetree-diff entry
\* with an operation is editable (an entry without the flag counts as
\* editable) or is removed or renamed, and on the snapshot path at toV
\* otherwise; every committed window was replayed on exactly one of the two
\* paths and has exactly one commit, whose tree is what that path made of
\* the tree of the commit before.
C23_DiffPathIffEligible ==
    /\ \A e1, e2 \in SampleEntries :
          /\ UseDiffPath(<<e1>>) <=> DiffEligible(e1)
          /\ UseDiffPath(<<e1, e2>>) <=> (DiffEligible(e1) /\ DiffEligible(e2))
    /\ hist.update # <<>> =>
          /\ Len(hist.paths) = Len(Chain(hist.before, overleaf))
          /\ \A i \in 1..Len(hist.paths) :
                IF AllEligible(WindowEntries(i))
                THEN ReplayedOn(i, "diff",
                                _apply_changes_diff(TreeOf(commits, WindowCommit(i).parent),
                                                    hist.spans[i].from_v, hist.spans[i].to_v,
                                                    WindowEntries(i)).tree)
                ELSE ReplayedOn(i, "zip",
                                _apply_changes_zip(TreeOf(commits, WindowCommit(i).parent),
                                                   hist.spans[i].to_v, WindowEntries(i)).tree)

\* A window that removes the binary file b was replayed on the diff path,
\* on a mirror that got b by a replay on the snapshot path.
C23_Witness ==
    /\ pc = "done" /\ result = "OK" /\ hist.update # <<>>
    /\ hist.paths = <<"diff">>
    /\ \E k \in 1..Len(WindowEntries(1)) :
          /\ WindowEntries(1)[k].operation = "removed"
          /\ ~WindowEntries(1)[k].editable
    /\ TreeOf(commits, WindowCommit(1).parent)[<<"b">>] # <<>>
    /\ WindowCommit(1).tree[<<"b">>] = <<>>

-----------------------------------------------------------------------------
(***************************************************************************)
(* The replay of a window on the snapshot path (SpecGap).                  *)
(***************************************************************************)
\* The paths of the files of a local tree, and of a snapshot.
TrackedFiles(tree) == {p \in DOMAIN tree : tree[p] # <<>>}

SnapshotFiles(v) == {p \in DOMAIN snaps[v] : IsFile(snaps[v][p])}

\* C24: the commit of a window replayed on the snapshot path holds the files
\* of the snapshot at toV and no other: every tracked file that the snapshot
\* does not have was deleted.
C24_SnapshotReplayDropsAbsentFiles ==
    \A i \in 1..Len(hist.paths) :
        hist.paths[i] = "zip" =>
            TrackedFiles(WindowCommit(i).tree) = SnapshotFiles(hist.spans[i].to_v)

\* A pull returned OK whose window was replayed on the snapshot path and
\* left a tracked file that the snapshot at toV does not have.
C24_Scenario ==
    /\ pc = "done" /\ result = "OK" /\ op.cmd = "pull"
    /\ hist.paths = <<"zip">>
    /\ \E p \in Universe :
          /\ WindowCommit(1).tree[p] # <<>>
          /\ ~IsFile(snaps[hist.spans[1].to_v][p])

-----------------------------------------------------------------------------
(***************************************************************************)
(* `push` of one commit of the user on a project of the folders d and d/e  *)
(* with the documents d/c and d/e/c, any of which is missing (SpecFolders).*)
(***************************************************************************)
NoFolders ==
    (<<"d">> :> NoEnt) @@ (<<"d", "c">> :> NoEnt)
        @@ (<<"d", "e">> :> NoEnt) @@ (<<"d", "e", "c">> :> NoEnt)

\* The projects the mirror is made of: no folder, the folder d, the folders
\* d and d/e.
FolderProjects ==
    { NoFolders,
      [NoFolders EXCEPT ![<<"d">>] = Folder(4)],
      [NoFolders EXCEPT ![<<"d">>] = Folder(4), ![<<"d", "e">>] = Folder(5)] }

InitFolders ==
    /\ \E t \in FolderProjects : RemoteAt(t, 10)
    /\ nextId = 6
    /\ textOrder = <<"A", "B">>
    /\ editors = {}
    /\ room = 0
    /\ \E tree \in LocalTrees : tree # Files(RemoteTree) /\ Forked(RemoteTree, 10, tree)

SpecFolders == InitFolders /\ [][NextPush]_vars

\* The folders above the path p, the root left out.
Ancestors(p) == {SubSeq(p, 1, n) : n \in 1..(Len(p) - 1)}

\* The positions of the request `call` for `pathname` in the requests cs.
CallAt(cs, call, pathname) ==
    {i \in 1..Len(cs) : cs[i] = [call |-> call, pathname |-> pathname]}

\* In the requests cs the folder q, missing in the tree t, is created once,
\* before position i and after each of its own folders that is missing.
CreatedBefore(cs, t, q, i) ==
    /\ Cardinality(CallAt(cs, "create_folder", q)) = 1
    /\ \A j \in CallAt(cs, "create_folder", q) :
          /\ j < i
          /\ \A r \in Ancestors(q) :
                t[r].kind = "none" => \E k \in CallAt(cs, "create_folder", r) : k < j

\* C25: in a push batch, before the upload of a file is sent, every folder
\* above it that the remote project does not have was created, shallowest
\* first, each by one request that the server answered by making the folder
\* inside its parent (the parent named by the id the request carries); a
\* folder the project has is not created again.
C25_FoldersCreatedParentFirst ==
    [][pc = "push_batch" =>
        \A i \in 1..Len(calls') :
            calls'[i].call = "upload" =>
                \A q \in Ancestors(calls'[i].pathname) :
                    IF RemoteTree[q].kind = "none"
                    THEN /\ CreatedBefore(calls', RemoteTree, q, i)
                         /\ snaps'[SetMax(DOMAIN snaps')][q].kind = "folder"
                    ELSE CallAt(calls', "create_folder", q) = {}]_vars

\* The batch of the new file d/e/c on a project without folders: d is
\* created, then d/e, then the file is uploaded.
C25_Witness ==
    /\ hist.pushed
    /\ calls = << [call |-> "create_folder", pathname |-> <<"d">>],
                  [call |-> "create_folder", pathname |-> <<"d", "e">>],
                  [call |-> "upload", pathname |-> <<"d", "e", "c">>] >>
    /\ RemoteTree[<<"d">>].kind = "folder"
    /\ RemoteTree[<<"d", "e">>].kind = "folder"
    /\ IsFile(RemoteTree[<<"d", "e", "c">>])

-----------------------------------------------------------------------------
(***************************************************************************)
(* The version tag written by push (SpecPush).                             *)
(***************************************************************************)
\* C26: push rebases the working branch onto the updated mirror before it
\* writes the version tag; so when a push that rebased returns OK, the tag
\* named after the recorded version is on the tip of the working branch.
C26_TagOnRebasedTip ==
    (pc = "done" /\ result = "OK" /\ op.phase = "push" /\ hist.rebased) =>
        <<local_overleaf_version, working>> \in vtags

\* A push returned OK after a rebase without conflict, and the tag of the
\* recorded version is on a commit that is not on the working branch.
C26_Scenario ==
    /\ pc = "done" /\ result = "OK" /\ op.phase = "push"
    /\ hist.pushed /\ hist.rebased /\ ~hist.conflict
    /\ \E t \in vtags :
          /\ t[1] = local_overleaf_version
          /\ t[2] # working
          /\ ~Ancestor(t[2], working)

-----------------------------------------------------------------------------
(***************************************************************************)
(* The confirmation of a folder delete in dry-run mode (SpecPush).         *)
(***************************************************************************)
\* C27: a command run with --dry-run asks no confirmation: the delete of a
\* folder is logged without a read from the terminal.
C27_DryRunAsksNothing ==
    op.dry_run => hist.asked = <<>>

\* `push --prune --dry-run` on a project with the empty folder d has asked
\* whether to delete d, and has sent nothing.
C27_Scenario ==
    /\ pc = "done" /\ op.cmd = "push" /\ op.prune /\ op.dry_run
    /\ hist.asked = << <<"d">> >>
    /\ calls = <<>>
    /\ ops = << [call |-> "delete", pathname |-> <<"d">>] >>

-----------------------------------------------------------------------------
(***************************************************************************)
(* The gate of OverleafBroker.download_zip (SpecZip).  The clock is in     *)
(* seconds; a download takes some time between the request and the         *)
(* response, the process does other work between two downloads, and a new  *)
(* run of the tool builds a new broker.  The other specifications leave    *)
(* the clock alone.                                                        *)
(***************************************************************************)
GateDelay == 120
Transfers == {0, 30}
Pauses == {60, 120}

\* _sleep_until(ts) returns at once: the mutant of SleepUntil.
SleepUntilNoSleep(t, ts) == t

\* _sleep_until(ts): the time at which it returns when called at time t.
SleepUntil(t, ts) == IF ts > t THEN ts ELSE t

\* download_zip as called by _apply_changes_zip: wait for the gate, send the
\* request, and on a successful response record its time.  An HTTPError
\* (raise_for_status in _get) leaves _download_zip_ts alone; the caller exits.
DownloadZip ==
    /\ Len(zips) < MaxZips
    /\ now <= MaxClock
    /\ zips # <<>> => Last(zips).ok
    /\ \E transfer \in Transfers, ok \in BOOLEAN :
        LET sent == SleepUntil(now, download_zip_ts + GateDelay)
            done == sent + transfer
        IN  /\ now' = done
            /\ download_zip_ts' = IF ok THEN done ELSE download_zip_ts
            /\ zips' = Append(zips, [sent |-> sent, done |-> done, ok |-> ok])
    /\ UNCHANGED <<remoteVars, gitVars, procVars, fetched, written>>

\* The process does something else between two downloads, or nothing runs.
Elapse ==
    /\ now <= MaxClock
    /\ \E d \in Pauses : now' = now + d
    /\ UNCHANGED <<remoteVars, gitVars, procVars, fetched, written, download_zip_ts, zips>>

\* The next run of the tool: OverleafBroker.__init__ starts the gate at 0.
NewBroker ==
    /\ zips # <<>>
    /\ download_zip_ts' = 0
    /\ zips' = <<>>
    /\ UNCHANGED <<remoteVars, gitVars, procVars, fetched, written, now>>

InitZip ==
    /\ Created1
    /\ nextId = 3
    /\ textOrder = <<"A", "B">>
    /\ editors = {}
    /\ room = 0
    /\ NotInitialized
    /\ fetched = <<>> /\ written = NoContent
    /\ NoDownloads

NextZip ==
    \/ DownloadZip
    \/ Elapse
    \/ NewBroker

SpecZip == InitZip /\ [][NextZip]_vars

\* C28: the snapshot downloads of one broker are serialized by the gate: a
\* download is requested only after the previous one has ended, every
\* download but the last has succeeded, and each request is sent no earlier
\* than 120 s after the completion of the previous successful download;
\* the gate's timestamp is the completion time of the last successful one.
C28_DownloadsGated ==
    /\ \A i \in 1..Len(zips) : zips[i].sent <= zips[i].done
    /\ \A i \in 2..Len(zips) :
        /\ zips[i - 1].ok
        /\ zips[i].sent >= zips[i - 1].done + GateDelay
    /\ LET good == {i \in 1..Len(zips) : zips[i].ok}
       IN  download_zip_ts =
               IF good = {} THEN 0
               ELSE zips[CHOOSE i \in good : \A j \in good : j <= i].done

\* Three downloads of one broker: the second waited for the gate exactly, the
\* third came after it had opened.
C28_Witness ==
    /\ Len(zips) = 3
    /\ zips[1].done > zips[1].sent
    /\ zips[2].sent = zips[1].done + GateDelay
    /\ zips[3].sent > zips[2].done + GateDelay
    /\ zips[3].ok

-----------------------------------------------------------------------------
(***************************************************************************)
(* A project whose history the server answers as the empty list            *)
(* (SpecEmpty): init on it, and init and pull once the server has written  *)
(* a version.                                                              *)
(***************************************************************************)
\* _git_repo_init after the migration of no update at all: the overleaf
\* branch has no commit, `git branch -f working overleaf` of
\* switch_to_working_branch(force=True) fails and GitBroker.__call__ exits.
InitFinishUnborn ==
    /\ pc = "migrate" /\ todo = <<>> /\ op.phase = "init"
    /\ overleaf = 0
    /\ Exit("GIT_ERROR")
    /\ UNCHANGED <<remoteVars, gitVars,
                   op, cache, idx, todo, stashed, calls, ops, status, answers, hist>>
    /\ UNCHANGED diffVars

InitEmpty ==
    /\ snaps = (0 :> (<<"a">> :> NoEnt))
    /\ steps = <<>>
    /\ updates = <<>>
    /\ nextId = 3
    /\ textOrder = <<"A", "B">>
    /\ editors = {"A", "B"}
    /\ room = MaxV
    /\ NotInitialized
    /\ fetched = <<>> /\ written = NoContent
    /\ NoDownloads

NextEmpty ==
    \/ StartInit
    \/ MigrateNext
    \/ InitFinish
    \/ InitFinishUnborn
    \/ RemoteWrite
    \/ StartPullPlain
    \/ PullCheck
    \/ PullStash
    \/ PullSelect
    \/ PullRebase
    \/ Terminate

SpecEmpty == InitEmpty /\ [][NextEmpty]_vars

-----------------------------------------------------------------------------
(***************************************************************************)
(* The dates of the replay commits (SpecSplit).                            *)
(***************************************************************************)
\* The dates a commit of the versions from_v+1..to_v can take from the
\* metadata of these versions: their end_ts in whole seconds.
SecondsOf(from_v, to_v) == {StepTs(v) \div 1000 : v \in (from_v + 1)..to_v}

RawMillis(from_v, to_v) == {StepTs(v) : v \in (from_v + 1)..to_v}

\* C30: every replay commit is dated in seconds, with the end_ts of a version
\* it covers divided by 1000: never with the millisecond value itself, never
\* with 0.
C30_CommitsDatedInSeconds ==
    \A i \in 1..Len(commits) :
        commits[i].date \in SecondsOf(commits[i].msg[1], commits[i].msg[2])

\* A pull that replayed an update of two authors and ended well, leaving a
\* commit dated with the end_ts of the update in milliseconds.
C30_Scenario ==
    /\ pc = "done" /\ result = "OK" /\ hist.err = ""
    /\ hist.replays = 1
    /\ Len(hist.update.users) = 2
    /\ \E i \in 1..Len(commits) :
        /\ commits[i].msg = <<hist.update.fromV, hist.update.toV>>
        /\ commits[i].date = hist.update.end_ts
        /\ commits[i].date \in RawMillis(commits[i].msg[1], commits[i].msg[2])

-----------------------------------------------------------------------------
(***************************************************************************)
(* A replay that fails on a request (SpecRetry): the diff or the snapshot  *)
(* of one span is not answered, the spans before it are committed, the     *)
(* process ends, and pull is run again.                                    *)
(***************************************************************************)
\* The file operations mt of a span whose request fails: requests.HTTPError
\* is raised by _get; _apply_changes_zip turns it into exit(HTTP_ERROR).
FailedRequest(mt) == [mt EXCEPT !.err = IF mt.path = "zip" THEN "HTTP_ERROR" ELSE "HTTPError"]

\* _migrate of the spans, in order, the request of span number k failing.
RECURSIVE MigrateSpansUntil(_, _, _)
MigrateSpansUntil(r, spans, k) ==
    IF spans = <<>> \/ r.err # "" THEN r
    ELSE MigrateSpansUntil(
             CommitSpan(r, Head(spans),
                        IF k = 1
                        THEN FailedRequest(MigrateTree(TreeOf(r.cs, r.tip), Head(spans).from_v,
                                                       Head(spans).to_v))
                        ELSE MigrateTree(TreeOf(r.cs, r.tip), Head(spans).from_v,
                                         Head(spans).to_v)),
             Tail(spans), k - 1)

\* _migrate_update(update) with a request of one of its spans failing; the
\* model lets a request fail while no stash entry is pending.
MigrateFails ==
    /\ pc = "migrate"
    /\ todo # <<>>
    /\ stashes = 0
    /\ \E k \in 1..Len(MigrateUpdateSpans(Head(todo)).spans) :
          MigrateStep(Migrated(MigrateSpansUntil([cs |-> commits, tip |-> overleaf,
                                                  err |-> "", paths |-> <<>>],
                                                 MigrateUpdateSpans(Head(todo)).spans, k),
                               MigrateUpdateSpans(Head(todo))))
    /\ UNCHANGED <<remoteVars, working, ws, head, stashes, rebasing, vtags,
                   op, cache, idx, stashed, calls, ops, status, answers>>
    /\ UNCHANGED diffVars

InitRetry ==
    /\ RemoteAt((<<"a">> :> Doc(2, <<1>>)) @@ (<<"b">> :> NoEnt), 10)
    /\ nextId = 3
    /\ textOrder = <<"A", "B">>
    /\ editors = Users
    /\ room = MaxWindow
    /\ Mirrored(RemoteTree, 10)

NextRetry ==
    \/ RemoteWrite
    \/ StartPullPlain
    \/ PullCheck
    \/ PullStash
    \/ PullSelect
    \/ MigrateNext
    \/ MigrateFails
    \/ PullRebase
    \/ Terminate

SpecRetry == InitRetry /\ [][NextRetry]_vars

\* The updates sel (newest first) reach down to the version local and leave
\* no version out between them.
CoversFrom(sel, local) ==
    /\ sel # <<>>
    /\ Last(sel).fromV <= local
    /\ \A i \in 1..(Len(sel) - 1) : sel[i].fromV = sel[i + 1].toV

\* The replay of the update at the head of the queue ends the command.
ReplayFails == pc = "migrate" /\ todo # <<>> /\ pc' = "done"

\* C31: when the replay of a revision fails before a commit, the recorded
\* version is the toV of the last span that was committed (the version of
\* before if none was), it is below the toV of the failed revision, and the
\* selection of the next pull holds the failed revision and every version
\* above the recorded one; the pull that follows replays from the recorded
\* version on, without a hole.
C31_FailedReplayIsSelectedAgain ==
    /\ [][ReplayFails =>
            /\ local_overleaf_version' =
                  IF hist'.paths = <<>> THEN local_overleaf_version
                  ELSE hist'.spans[Len(hist'.paths)].to_v
            /\ local_overleaf_version' < Head(todo).toV
            /\ TreeOf(commits', overleaf') = Files(snaps[local_overleaf_version'])
            /\ CoversFrom(TakeWhileNewer(updates', local_overleaf_version'),
                          local_overleaf_version')
            /\ TakeWhileNewer(updates', local_overleaf_version')[1].toV >= Head(todo).toV]_vars
    /\ [][(pc = "pull_select" /\ pc' = "migrate") =>
            /\ todo'[1].fromV = local_overleaf_version
            /\ \A i \in 1..(Len(todo') - 1) : todo'[i].toV = todo'[i + 1].fromV
            /\ Last(todo').toV = cache'[1].toV]_vars

\* The pull after a failed one: the changes the failed replay left in the
\* working tree were stashed, and the replay starts inside the update whose
\* first span had been committed.
C31_Witness ==
    /\ pc = "migrate" /\ op.phase = "pull" /\ stashed
    /\ todo # <<>>
    /\ todo[1].fromV = local_overleaf_version
    /\ \E i \in 1..Len(updates) :
          /\ updates[i].fromV < local_overleaf_version
          /\ local_overleaf_version < updates[i].toV
          /\ Len(updates[i].users) = 2
    /\ commits[overleaf].msg[2] - commits[overleaf].msg[1] = 1
    /\ Len(commits) = 2

-----------------------------------------------------------------------------
(***************************************************************************)
(* The assertions on the way of push (SpecPush).                           *)
(***************************************************************************)
\* C32: no push ends on a failed assertion: the changeset of new working
\* commits is not empty, and the _pull that follows the batch finds an
\* update above the recorded version, in dry-run mode too.
C32_PushAssertionsHold ==
    ~(pc = "done" /\ op.cmd = "push" /\ result = "AssertionError")

\* push --dry-run of a new working commit: the batch was worked through
\* without a request, the server has no new version, and the _pull that
\* follows fails on `assert len(upcoming_overleaf_versions) > 0`.
C32_Scenario ==
    /\ pc = "done" /\ op.cmd = "push" /\ result = "AssertionError"
    /\ op.dry_run /\ ~op.prune
    /\ hist.pushed
    /\ ops # <<>> /\ calls = <<>>
    /\ RemoteVersion = local_overleaf_version
    /\ vtags = {}

-----------------------------------------------------------------------------
(***************************************************************************)
(* push and another editor of the remote project (SpecRace).               *)
(***************************************************************************)
\* C33: push sends an upload or a delete only while the server has no
\* version above the recorded one.
C33_NoBatchOverUnseenEdit ==
    [][Len(calls') > Len(calls) => RemoteVersion <= local_overleaf_version]_vars

\* push (no --prune) saw equal versions at its check; B's edit came next,
\* and the batch of push was sent on top of it.
C33_Scenario ==
    /\ op.cmd = "push" /\ ~op.prune /\ ~op.dry_run
    /\ pc = "pull_select"
    /\ hist.checked /\ hist.chkRemote = hist.chkLocal
    /\ hist.chkLocal = local_overleaf_version
    /\ Len(calls) = 1
    /\ RemoteVersion = local_overleaf_version + 2
    /\ steps[local_overleaf_version + 1] = "B"
    /\ steps[local_overleaf_version + 2] = Me

-----------------------------------------------------------------------------
(***************************************************************************)
(* The stash made at the start of pull and push (SpecRace).                *)
(***************************************************************************)
\* C34: a pull or push that stashed changes of the working tree and returns
\* OK has popped the stash entry (the stashed changes are back in the working
\* tree), and leaves the working branch checked out.
C34_StashPoppedOnOK ==
    (pc = "done" /\ result = "OK" /\ stashed) => (head = "working" /\ dirty)

\* push returned OK after its rebase stopped on a conflict: the stash entry
\* is still there and no branch is checked out.
C34_Scenario ==
    /\ pc = "done" /\ result = "OK" /\ op.cmd = "push"
    /\ stashed
    /\ stashes = 1 /\ ~dirty
    /\ rebasing /\ head = "detached"
    /\ hist.conflict

-----------------------------------------------------------------------------
(***************************************************************************)
(* `push` of one commit on a project that holds a document at the path d,  *)
(* or the folder d with the document d/c (SpecStale): the commit can turn  *)
(* the file d into a directory.                                            *)
(***************************************************************************)
StaleProjects ==
    { (<<"a">> :> Doc(2, <<1>>)) @@ (<<"d">> :> Doc(4, <<1>>)) @@ (<<"d", "c">> :> NoEnt),
      (<<"a">> :> Doc(2, <<1>>)) @@ (<<"d">> :> Folder(4)) @@ (<<"d", "c">> :> Doc(5, <<1>>)) }

InitStale ==
    /\ \E t \in StaleProjects : RemoteAt(t, 10)
    /\ nextId = 6
    /\ textOrder = <<"A", "B">>
    /\ editors = {}
    /\ room = 0
    /\ \E tree \in LocalTrees : tree # Files(RemoteTree) /\ Forked(RemoteTree, 10, tree)

SpecStale == InitStale /\ [][NextPush]_vars

\* The request `call` for `pathname` was sent by the running command.
WasSent(call, pathname) ==
    \E k \in 1..Len(calls) : calls[k] = [call |-> call, pathname |-> pathname]

\* C35: in a push batch, an upload into the directory p that follows the
\* delete of the remote file p does not resolve p to the deleted file: p is
\* not found, and the folder p is created.
C35_DeletedPathIsNotResolved ==
    \A i \in 1..Len(ops) : \A j \in (i + 1)..Len(ops) :
        (/\ ops[i].call = "delete" /\ WasSent("delete", ops[i].pathname)
         /\ ops[j].call = "upload" /\ Dirname(ops[j].pathname) = ops[i].pathname)
            => WasSent("create_folder", ops[i].pathname)

\* The commit replaced the file d by the file d/c: d was deleted on the
\* server, the upload of d/c found d in the index as a document and failed
\* on `assert type == "folder"`.
C35_Scenario ==
    /\ pc = "done" /\ op.cmd = "push" /\ result = "AssertionError"
    /\ ops = << [call |-> "delete", pathname |-> <<"d">>],
                [call |-> "upload", pathname |-> <<"d", "c">>] >>
    /\ calls = << [call |-> "delete", pathname |-> <<"d">>] >>
    /\ idx.valid /\ idx.tree[<<"d">>].kind = "doc"
    /\ RemoteTree[<<"d">>] = NoEnt

-----------------------------------------------------------------------------
(***************************************************************************)
(* `sync` on a project with the empty folder d while B edits the project   *)
(* (SpecPrune): the folder tree read in the pull phase is still cached     *)
(* when the push phase prunes.                                             *)
(***************************************************************************)
InitPrune ==
    /\ RemoteAt((<<"a">> :> Doc(2, <<1>>)) @@ (<<"d">> :> Folder(4))
                   @@ (<<"d", "c">> :> NoEnt), 10)
    /\ nextId = 6
    /\ textOrder = <<"A", "B">>
    /\ editors = {"B"}
    /\ room = MaxWork
    /\ \E tree \in LocalTrees : tree # Files(RemoteTree) /\ Forked(RemoteTree, 10, tree)

SpecPrune == InitPrune /\ [][NextSync]_vars

\* The folder p of the tree t holds a file or a document, at any depth.
HoldsFiles(t, p) == \E q \in DOMAIN t : IsPrefix(p, q) /\ IsFile(t[q])

\* C36: push with prune sends a delete only for a remote folder that holds no
\* file and no document at any depth.
C36_PruneDeletesEmptyFoldersOnly ==
    [][(op.prune /\ op.phase = "push") =>
          \A k \in (Len(calls) + 1)..Len(calls') :
              calls'[k].call = "delete" => ~HoldsFiles(RemoteTree, calls'[k].pathname)]_vars

\* sync --prune: B wrote d/c after the pull phase had read the folder tree;
\* the push phase found d empty in the cached tree and deleted it with d/c.
C36_Scenario ==
    /\ pc = "done" /\ op.cmd = "sync" /\ op.prune /\ ~op.dry_run
    /\ calls = << [call |-> "delete", pathname |-> <<"d">>] >>
    /\ RemoteVersion > 11
    /\ snaps[RemoteVersion - 1][<<"d", "c">>].kind = "doc"
    /\ steps[RemoteVersion - 1] = "B"
    /\ RemoteTree[<<"d">>] = NoEnt /\ RemoteTree[<<"d", "c">>] = NoEnt

-----------------------------------------------------------------------------
(***************************************************************************)
(* The commands in dry-run mode (SpecPrune).                               *)
(***************************************************************************)
\* C37: no step of a command run with --dry-run moves the tip of the mirror
\* branch or the recorded version, and none sends an upload, a delete or a
\* create-folder request, the steps of the prune of push included.
C37_DryRunChangesNothing ==
    [][op.dry_run =>
          /\ overleaf' = overleaf
          /\ LocalVersionOf(commits', overleaf') = local_overleaf_version
          /\ calls' = calls]_vars

\* `sync --prune --dry-run` has ended: its pull found the revisions of B
\* above the recorded version 10 and replayed none, its push listed the
\* delete of the empty folder d and sent nothing, d is still on the server.
C37_Scenario ==
    /\ pc = "done" /\ op.cmd = "sync" /\ op.phase = "push" /\ op.prune /\ op.dry_run
    /\ hist.newRev
    /\ hist.chkRemote > hist.chkLocal
    /\ local_overleaf_version = 10
    /\ ops = << [call |-> "delete", pathname |-> <<"d">>] >>
    /\ calls = <<>>
    /\ RemoteTree[<<"d">>].kind = "folder"

-----------------------------------------------------------------------------
(***************************************************************************)
(* The repository init leaves, and the push that follows it (Spec).        *)
(***************************************************************************)
\* init has returned OK.
InitReturnedOK == op.cmd = "init" /\ pc = "done" /\ result = "OK"

\* The branches as _git_repo_init leaves them: the mirror tip, the working
\* tip and the tag ws are one commit, the working branch is checked out.
AsInitLeaves ==
    /\ overleaf # 0
    /\ working = overleaf /\ ws = overleaf
    /\ head = "working"

\* The first step of push on a repository in that state.
PushOfFreshRepository == pc = "push_begin" /\ op.cmd = "push" /\ AsInitLeaves

\* The step fetched nothing from the server and sent nothing to it, and the
\* command returned OK.
ReturnsWithoutRemoteCall ==
    /\ ~new_working_commit_exists
    /\ calls' = calls /\ ops' = ops /\ idx' = idx /\ cache' = cache
    /\ snaps' = snaps /\ updates' = updates
    /\ pc' = "done" /\ result' = "OK"

\* C38: once init has returned OK the mirror tip, the working tip and the
\* tag ws are the same commit, the working branch is checked out and the
\* recorded version is the toV of the newest update of the remote; a push
\* run on that state, with any options, finds no new commit and returns
\* without a remote call.
C38_PushAfterInitCallsNothing ==
    [][/\ InitReturnedOK' =>
             (AsInitLeaves' /\ LocalVersionOf(commits', overleaf') = updates'[1].toV)
       /\ PushOfFreshRepository => ReturnsWithoutRemoteCall]_vars

\* C38 (amended): the same with the push run without --prune.
C38_PlainPushAfterInitCallsNothing ==
    [][/\ InitReturnedOK' =>
             (AsInitLeaves' /\ LocalVersionOf(commits', overleaf') = updates'[1].toV)
       /\ (PushOfFreshRepository /\ ~op.prune) => ReturnsWithoutRemoteCall]_vars

\* init of the project at version 2 made the two commits of the mirror; the
\* push run right after it has returned OK, nothing fetched, nothing sent.
C38_Witness ==
    /\ pc = "done" /\ op.cmd = "push" /\ ~op.prune /\ result = "OK"
    /\ AsInitLeaves
    /\ Len(commits) = 2 /\ overleaf = 2
    /\ local_overleaf_version = 2 /\ RemoteVersion = 2
    /\ vtags = {}
    /\ calls = <<>> /\ idx = NoIdx /\ cache = <<>>

=============================================================================
